---- MODULE Spec2Model ----
(***************************************************************************)
(* klbfw-describe: the response-to-artifact rendering engine.              *)
(*                                                                         *)
(* Two implementations of the engine live in the repository and both are   *)
(* modelled: the CommonJS monolith src/index.js ("index") and the ES       *)
(* module src/src/api.js ("api").  JavaScript objects are records whose    *)
(* DOMAIN holds exactly the properties that are present; names that the    *)
(* code takes apart (field names, argument names, object keys) are         *)
(* sequences of one-character strings; type names and rendered type        *)
(* expressions are strings.                                                *)
(***************************************************************************)
EXTENDS Integers, Sequences, FiniteSets, TLC

VARIABLES impl, pc, input, opts, sink, console, result, req

vars == <<impl, pc, input, opts, sink, console, result, req>>

Impls == {"index", "api"}

(***************************************************************************)
(* JavaScript string primitives on character sequences.                    *)
(***************************************************************************)
Min(a, b) == IF a < b THEN a ELSE b

Max(a, b) == IF a > b THEN a ELSE b

\* String.prototype.endsWith
EndsWith(s, suf) ==
    /\ Len(suf) <= Len(s)
    /\ SubSeq(s, Len(s) - Len(suf) + 1, Len(s)) = suf

\* String.prototype.startsWith
StartsWith(s, pre) ==
    /\ Len(pre) <= Len(s)
    /\ SubSeq(s, 1, Len(pre)) = pre

\* String.prototype.includes
Includes(s, sub) ==
    \E i \in 0..(Len(s) - Len(sub)) : SubSeq(s, i + 1, i + Len(sub)) = sub

\* s.slice(0, -n): everything but the last n characters ("" when s is shorter)
SliceEnd(s, n) == SubSeq(s, 1, Max(Len(s) - n, 0))

\* The 7-character suffix of a translatable ID field, and the 2-character
\* suffix of a foreign key.
TextSuffix == <<"_", "T", "e", "x", "t", "_", "_">>

FkSuffix == <<"_", "_">>

TextSuffixLen == 7

\* An absent property reads as undefined; a string property is truthy when
\* present and non-empty.
Has(o, k) == k \in DOMAIN o

Truthy(o, k) == Has(o, k) /\ o[k] # ""

\* Array.prototype.join on a sequence of strings
RECURSIVE Join(_, _)
Join(seq, sep) ==
    IF Len(seq) = 0 THEN ""
    ELSE IF Len(seq) = 1 THEN seq[1]
    ELSE seq[1] \o sep \o Join(Tail(seq), sep)

\* String.prototype.toLowerCase on the type vocabulary of the model
ToLowerCase(s) ==
    CASE s = "ENUM" -> "enum"
      [] s = "Enum" -> "enum"
      [] s = "SET" -> "set"
      [] s = "INT" -> "int"
      [] s = "CHAR" -> "char"
      [] s = "VARCHAR" -> "varchar"
      [] s = "DATETIME" -> "datetime"
      [] s = "DateTime" -> "datetime"
      [] s = "TIMESTAMP" -> "timestamp"
      [] OTHER -> s

(***************************************************************************)
(* Type Mapper.                                                            *)
(***************************************************************************)
\* validatorMap of mapToTsType: the recognized validators
ValidatorMap == {"uuid", "email", "url", "phone", "password", "login", "language"}

\* sqlTypeMap of mapToTsType, by lowercased type name (the 'enum' and 'set'
\* entries are computed from info.values)
SqlTypeMap(type, info) ==
    CASE type \in {"int", "integer", "tinyint", "smallint", "mediumint", "bigint",
                   "decimal", "float", "double", "number", "year"} -> "number"
      [] type \in {"char", "varchar", "text", "tinytext", "mediumtext", "longtext",
                   "string", "date", "time", "blob", "binary", "varbinary"} -> "string"
      [] type \in {"datetime", "timestamp"} -> "KlbDateTime"
      [] type = "enum" ->
            IF Has(info, "values")
            THEN "'" \o Join(info.values, "' | '") \o "' | null"
            ELSE "string"
      [] type = "set" -> "string[]"
      [] type \in {"json", "object"} -> "Record<string, any>"
      [] type \in {"bool", "boolean"} -> "boolean"
      [] type = "array" -> "any[]"
      [] OTHER -> "any"

\* mapToTsType with the nullability suffix of the ENUM union dropped
MapToTsTypeNoNull(info) ==
    IF ~Truthy(info, "type") THEN "any"
    ELSE LET type == ToLowerCase(info.type) IN
         IF Truthy(info, "validator") /\ info.validator \in ValidatorMap THEN "string"
         ELSE IF type = "enum" /\ Has(info, "values")
         THEN "'" \o Join(info.values, "' | '") \o "'"
         ELSE IF type = "set" /\ Has(info, "values") THEN "string[]"
         ELSE IF Has(info, "validator") /\ info.validator = "uuid" THEN "string"
         ELSE SqlTypeMap(type, info)

\* mapToTsType(apiType, info) of src/index.js, called with apiType = info.type
MapToTsType(info) ==
    IF ~Truthy(info, "type") THEN "any"
    ELSE LET type == ToLowerCase(info.type) IN
         IF Truthy(info, "validator") /\ info.validator \in ValidatorMap THEN "string"
         ELSE IF type = "enum" /\ Has(info, "values")
         THEN "'" \o Join(info.values, "' | '") \o "'"
              \o (IF Has(info, "null") /\ info.null = FALSE THEN "" ELSE " | null")
         ELSE IF type = "set" /\ Has(info, "values") THEN "string[]"
         ELSE IF Has(info, "validator") /\ info.validator = "uuid" THEN "string"
         ELSE SqlTypeMap(type, info)

\* info.values.map(v => `'${v}'`)
RECURSIVE QuoteAll(_)
QuoteAll(values) ==
    IF Len(values) = 0 THEN <<>>
    ELSE <<"'" \o Head(values) \o "'">> \o QuoteAll(Tail(values))

\* convertToTypeScriptType(type, field, info) of src/src/api.js; a call with
\* one argument passes field = "" and info = {}
ConvertToTypeScriptType(type, field, info) ==
    IF type = "" THEN "any"
    ELSE LET lowerType == ToLowerCase(type) IN
         IF EndsWith(field, FkSuffix) /\ Has(info, "validator") /\ info.validator = "uuid"
         THEN "string"
         ELSE IF lowerType \in {"enum", "set"} /\ Has(info, "values")
         THEN Join(QuoteAll(info.values), " | ")
         ELSE CASE lowerType \in {"int", "integer", "bigint", "tinyint", "smallint",
                                  "mediumint", "float", "double", "decimal",
                                  "number"} -> "number"
                [] lowerType \in {"char", "string", "text", "tinytext", "mediumtext",
                                  "longtext", "varchar"} -> "string"
                [] lowerType \in {"bool", "boolean"} -> "boolean"
                [] lowerType \in {"datetime", "timestamp"} -> "KlbDateTime"
                [] lowerType \in {"date", "time"} -> "string"
                [] lowerType \in {"json", "array"} -> "any[]"
                [] lowerType \in {"object", "json_object"} -> "Record<string, any>"
                [] OTHER -> "any"

\* info.type as the callers pass it: undefined reads as a falsy type
TypeOf(info) == IF Has(info, "type") THEN info.type ELSE ""

\* The Type Mapper of either implementation applied to a table field
MapType(im, field, info) ==
    IF im = "index" THEN MapToTsType(info)
    ELSE ConvertToTypeScriptType(TypeOf(info), field, info)

(***************************************************************************)
(* Name Deriver.                                                           *)
(***************************************************************************)
LowerLetters ==
    <<"a", "b", "c", "d", "e", "f", "g", "h", "i", "j", "k", "l", "m",
      "n", "o", "p", "q", "r", "s", "t", "u", "v", "w", "x", "y", "z">>

UpperLetters ==
    <<"A", "B", "C", "D", "E", "F", "G", "H", "I", "J", "K", "L", "M",
      "N", "O", "P", "Q", "R", "S", "T", "U", "V", "W", "X", "Y", "Z">>

Digits == {"0", "1", "2", "3", "4", "5", "6", "7", "8", "9"}

Range(f) == {f[i] : i \in DOMAIN f}

IsLower(c) == c \in Range(LowerLetters)

IsUpper(c) == c \in Range(UpperLetters)

\* [a-zA-Z]
IsLetter(c) == IsLower(c) \/ IsUpper(c)

\* [a-zA-Z0-9]
IsAlnum(c) == IsLetter(c) \/ c \in Digits

\* \w
IsWord(c) == IsAlnum(c) \/ c = "_"

\* String.prototype.toUpperCase on one character
ToUpperChar(c) ==
    IF IsLower(c)
    THEN UpperLetters[CHOOSE i \in DOMAIN LowerLetters : LowerLetters[i] = c]
    ELSE c

\* Array.prototype.join('') on a sequence of character sequences
RECURSIVE Concat(_)
Concat(parts) == IF Len(parts) = 0 THEN <<>> ELSE Head(parts) \o Concat(Tail(parts))

\* str.split(/[^a-zA-Z0-9]+/): the maximal alphanumeric pieces, with an empty
\* piece at either end when str starts or ends with a separator
RECURSIVE SplitNonAlnum(_, _)
SplitNonAlnum(str, cur) ==
    IF Len(str) = 0 THEN <<cur>>
    ELSE IF IsAlnum(Head(str)) THEN SplitNonAlnum(Tail(str), Append(cur, Head(str)))
    ELSE IF Len(str) >= 2 /\ ~IsAlnum(str[2]) THEN SplitNonAlnum(Tail(str), cur)
    ELSE <<cur>> \o SplitNonAlnum(Tail(str), <<>>)

\* part.charAt(0).toUpperCase() + part.slice(1)
Capitalize(part) ==
    IF Len(part) = 0 THEN <<>> ELSE <<ToUpperChar(Head(part))>> \o Tail(part)

RECURSIVE CapitalizeAll(_)
CapitalizeAll(parts) ==
    IF Len(parts) = 0 THEN <<>>
    ELSE <<Capitalize(Head(parts))>> \o CapitalizeAll(Tail(parts))

\* pascalCase(str) of src/src/api.js
PascalCaseApi(str) ==
    IF Len(str) = 0 THEN <<>> ELSE Concat(CapitalizeAll(SplitNonAlnum(str, <<>>)))

\* pascalCase(str) of src/index.js: uppercase every match of
\* /(?:^\w|[A-Z]|\b\w)/g, then delete every run of /[\s-_]+/
PascalCaseIndex(str) ==
    LET up(i) ==
            IF IsWord(str[i]) /\ (i = 1 \/ ~IsWord(str[i - 1]))
            THEN ToUpperChar(str[i]) ELSE str[i]
        upper == [i \in 1..Len(str) |-> up(i)]
    IN  SelectSeq(upper, LAMBDA c : c \notin {" ", "-", "_"})

ApiObject == <<"A", "p", "i", "O", "b", "j", "e", "c", "t">>

Unknown == <<"U", "n", "k", "n", "o", "w", "n">>

\* lastPart.split(':')[0]
RECURSIVE BeforeColon(_)
BeforeColon(s) ==
    IF Len(s) = 0 \/ Head(s) = ":" THEN <<>> ELSE <<Head(s)>> \o BeforeColon(Tail(s))

\* getTypeName(apiPath) of src/src/api.js, on the segments parts of
\* apiPath.split('/'); apiPath is '' exactly when parts is empty
GetTypeName(parts) ==
    IF Len(Concat(parts)) = 0 /\ Len(parts) <= 1 THEN ApiObject
    ELSE LET lastPart == parts[Len(parts)] IN
         IF \E i \in DOMAIN lastPart : lastPart[i] = ":"
         THEN PascalCaseApi(BeforeColon(lastPart))
         ELSE IF \E i \in DOMAIN lastPart : ~IsLetter(lastPart[i])
         THEN PascalCaseApi(IF Len(parts) >= 2 /\ Len(parts[Len(parts) - 1]) > 0
                            THEN parts[Len(parts) - 1] ELSE ApiObject)
         ELSE IF Len(parts) > 1
         THEN PascalCaseApi(parts[Len(parts) - 1] \o parts[Len(parts)])
         ELSE PascalCaseApi(lastPart)

\* data.Path ? data.Path.join('/').split('/') : ['Unknown']
PathParts(data) == IF Has(data, "Path") THEN data.Path ELSE <<Unknown>>

\* `I${data.Path ? data.Path.join('') : 'Unknown'}` of src/index.js
IndexPathName(data) == <<"I">> \o Concat(PathParts(data))

(***************************************************************************)
(* Description documents.  table.Struct is an ordered list of entries      *)
(* [name, info] (Object.keys order); its reserved key _primary is an entry *)
(* like the others, whose info holds the list of key columns.              *)
(***************************************************************************)
Underscore == <<"_">>

PrimaryKey == <<"_", "p", "r", "i", "m", "a", "r", "y">>

\* Object.keys(struct)
StructKeys(struct) == [i \in DOMAIN struct |-> struct[i].name]

\* struct[name] !== undefined
StructHas(struct, name) == \E i \in DOMAIN struct : struct[i].name = name

\* struct[name]
StructGet(struct, name) ==
    struct[CHOOSE i \in DOMAIN struct : struct[i].name = name].info

\* Object.keys(struct).filter(key => !key.startsWith('_'))
Fields(struct) == SelectSeq(StructKeys(struct), LAMBDA key : ~StartsWith(key, Underscore))

\* arg.type && (arg.type.toLowerCase() === 'datetime' || ... === 'timestamp')
IsDateTimeType(o) ==
    Truthy(o, "type") /\ ToLowerCase(o.type) \in {"datetime", "timestamp"}

\* The three scans that set hasDateTimeFields
TableHasDateTime(data) ==
    /\ Has(data, "table") /\ Has(data.table, "Struct")
    /\ \E i \in DOMAIN data.table.Struct :
          /\ ~StartsWith(data.table.Struct[i].name, Underscore)
          /\ IsDateTimeType(data.table.Struct[i].info)

ProcedureHasDateTime(data) ==
    /\ Has(data, "procedure") /\ Has(data.procedure, "args")
    /\ \E i \in DOMAIN data.procedure.args : IsDateTimeType(data.procedure.args[i])

FuncHasDateTime(data) ==
    /\ Has(data, "func")
    /\ \E f \in DOMAIN data.func :
          /\ Has(data.func[f], "args")
          /\ \E i \in DOMAIN data.func[f].args : IsDateTimeType(data.func[f].args[i])

KlbDateTimeLine == [k |-> "declaration", name |-> "KlbDateTime"]

\* A declaration after each scan that finds a qualifying field or argument
KlbDateTimePerScan(data) ==
    (IF TableHasDateTime(data) THEN <<KlbDateTimeLine>> ELSE <<>>)
    \o (IF ProcedureHasDateTime(data) THEN <<KlbDateTimeLine>> ELSE <<>>)
    \o (IF FuncHasDateTime(data) THEN <<KlbDateTimeLine>> ELSE <<>>)

\* hasDateTimeFields and the single declaration it guards
KlbDateTimeDeclaration(data) ==
    IF TableHasDateTime(data) \/ ProcedureHasDateTime(data) \/ FuncHasDateTime(data)
    THEN <<KlbDateTimeLine>> ELSE <<>>

\* Sequence of f(seq[i]) blocks, concatenated
FlatMap(seq, f(_)) ==
    LET F[i \in 0..Len(seq)] == IF i = 0 THEN <<>> ELSE F[i - 1] \o f(seq[i])
    IN  F[Len(seq)]

Text(t) == [k |-> "text", t |-> t]

\* getExampleValue(type)
GetExampleValue(o) ==
    IF ~Truthy(o, "type") THEN "null"
    ELSE LET t == ToLowerCase(o.type) IN
         CASE t \in {"bool", "boolean"} -> "true"
           [] t \in {"int", "integer", "number"} -> "123"
           [] t \in {"float", "double"} -> "12.34"
           [] t = "string" -> "\"example\""
           [] t = "text" -> "\"example text\""
           [] t = "json" -> "{ key: \"value\" }"
           [] t = "array" -> "[]"
           [] t = "object" -> "{}"
           [] t = "date" -> "\"2023-01-01\""
           [] t \in {"datetime", "timestamp"} -> "{ unix: 1742172348, ... }"
           [] t = "email" -> "\"user@example.com\""
           [] t = "url" -> "\"https://example.com\""
           [] t = "file" -> "\"file_id\""
           [] OTHER -> "null"

\* The argument type of generateProcedureTypes and generateMethodTypes
IndexArgType(arg) ==
    IF EndsWith(arg.name, FkSuffix) THEN "string"
    ELSE IF \/ arg.name = <<"e", "r", "a", "s", "e">>
            \/ StartsWith(arg.name, <<"i", "s", "_">>)
            \/ StartsWith(arg.name, <<"h", "a", "s", "_">>) THEN "boolean"
    ELSE IF Includes(arg.name, <<"p", "a", "s", "s", "w", "o", "r", "d">>) THEN "string"
    ELSE IF EndsWith(arg.name, <<"_", "i", "d">>) \/ Includes(arg.name, <<"I", "d">>)
    THEN "string"
    ELSE IF Truthy(arg, "type") THEN MapToTsType(arg)
    ELSE "any"

RequestSuffix == <<"R", "e", "q", "u", "e", "s", "t">>
ResponseSuffix == <<"R", "e", "s", "p", "o", "n", "s", "e">>

\* One property line of a Request interface
IndexArgLine(iface, arg) ==
    [k |-> "prop", of |-> iface, name |-> arg.name,
     optional |-> ~(Has(arg, "required") /\ arg.required),
     type |-> IndexArgType(arg), synthetic |-> FALSE,
     comment |-> IF Truthy(arg, "description") THEN <<arg.description>> ELSE <<>>]

\* The Request interface, the Response interface and the usage example that
\* generateProcedureTypes and generateMethodTypes print for one callable
IndexCallableTypes(data, callable, what) ==
    LET iface == IndexPathName(data) \o PascalCaseIndex(callable.name)
        args == IF Has(callable, "args") THEN callable.args ELSE <<>>
        argLine(arg) == <<IndexArgLine(iface \o RequestSuffix, arg)>>
        example(arg) == <<[k |-> "example", name |-> arg.name,
                           value |-> GetExampleValue(arg)]>>
    IN  <<[k |-> "doc", of |-> what, name |-> callable.name,
           static |-> Has(callable, "static") /\ callable.static],
          [k |-> "interface", name |-> iface \o RequestSuffix]>>
        \o FlatMap(args, argLine)
        \o <<[k |-> "close"]>>
        \o (IF Truthy(callable, "return_type")
            THEN <<[k |-> "interface", name |-> iface \o ResponseSuffix],
                   [k |-> "returntype", type |-> callable.return_type],
                   Text("  data: any; // Replace with specific structure if known"),
                   [k |-> "close"]>>
            ELSE <<>>)
        \o <<Text("/**"), Text(" * Usage Example:"), Text(" * "),
             Text(" * // TypeScript"),
             [k |-> "request", name |-> iface \o RequestSuffix]>>
        \o FlatMap(args, example)
        \o <<Text(" * };"), Text(" * "),
             [k |-> "call", name |-> iface \o ResponseSuffix,
              static |-> Has(callable, "static") /\ callable.static],
             Text(" */")>>

\* generateProcedureTypes(data)
GenerateProcedureTypes(data) == IndexCallableTypes(data, data.procedure, "procedure")

\* generateMethodTypes(data)
GenerateMethodTypes(data) ==
    LET one(func) == IndexCallableTypes(data, func, "method") IN FlatMap(data.func, one)

\* The field line of generateResourceTypes, and the companion line that
\* follows a translatable ID field
IndexFieldLines(iface, struct, field) ==
    LET info == StructGet(struct, field) IN
    <<[k |-> "prop", of |-> iface, name |-> field,
       optional |-> ~(Has(info, "null") /\ info.null = FALSE),
       type |-> MapToTsType(info), synthetic |-> FALSE,
       comment |-> IF Truthy(info, "validator") THEN <<info.validator>>
                   ELSE IF Has(info, "protect") /\ info.protect THEN <<"protected">>
                   ELSE <<>>]>>
    \o (IF EndsWith(field, TextSuffix)
        THEN <<[k |-> "prop", of |-> iface, name |-> SliceEnd(field, TextSuffixLen),
                optional |-> TRUE, type |-> "string", synthetic |-> TRUE,
                comment |-> <<"Auto-generated translated text field">>]>>
        ELSE <<>>)

\* The ID type of generateResourceTypes: an alias for a one-column _primary, a
\* composite interface for a longer one, nothing without _primary
IndexIdType(iface, struct) ==
    IF ~StructHas(struct, PrimaryKey) THEN <<>>
    ELSE LET primaryKeys == StructGet(struct, PrimaryKey).list
             keyInfo(key) == IF StructHas(struct, key) THEN StructGet(struct, key)
                             ELSE [x \in {} |-> x]
             keyLine(key) == <<[k |-> "prop", of |-> iface \o <<"I", "D">>, name |-> key,
                                optional |-> FALSE, type |-> MapToTsType(keyInfo(key)),
                                synthetic |-> FALSE, comment |-> <<>>]>>
         IN  IF Len(primaryKeys) = 1
             THEN <<[k |-> "doc", of |-> "id"],
                    [k |-> "alias", name |-> iface \o <<"I", "D">>,
                     type |-> MapToTsType(keyInfo(primaryKeys[1]))]>>
             ELSE IF Len(primaryKeys) > 1
             THEN <<[k |-> "doc", of |-> "compositeid"],
                    [k |-> "interface", name |-> iface \o <<"I", "D">>]>>
                  \o FlatMap(primaryKeys, keyLine)
                  \o <<[k |-> "close"]>>
             ELSE <<>>

\* generateResourceTypes(data)
GenerateResourceTypes(data) ==
    LET iface == IndexPathName(data)
        struct == IF Has(data.table, "Struct") THEN data.table.Struct ELSE <<>>
        fieldLines(field) == IndexFieldLines(iface, struct, field)
    IN  <<[k |-> "doc", of |-> "resource"], [k |-> "interface", name |-> iface]>>
        \o FlatMap(Fields(struct), fieldLines)
        \o <<[k |-> "close"]>>
        \o IndexIdType(iface, struct)

NoDataLine == [k |-> "error", t |-> "No API data found in response"]

\* generateTypeScriptDefinitions(jsonData) of src/index.js: every line goes
\* to console.log
IndexGenerateTypeScriptDefinitions(jsonData) ==
    IF ~Has(jsonData, "data") THEN <<NoDataLine>>
    ELSE LET data == jsonData.data IN
         <<[k |-> "header", path |-> PathParts(data)]>>
         \o KlbDateTimeDeclaration(data)
         \o (IF Has(data, "procedure") THEN GenerateProcedureTypes(data)
             ELSE (IF Has(data, "table") THEN GenerateResourceTypes(data) ELSE <<>>)
                  \o (IF Has(data, "func") /\ Len(data.func) > 0
                      THEN GenerateMethodTypes(data) ELSE <<>>))

(***************************************************************************)
(* TypeScript Emitter of src/src/api.js.                                   *)
(***************************************************************************)
\* The comment parts of a table field, in the order they are pushed
ApiCommentParts(field, info) ==
    (IF Truthy(info, "desc") THEN <<[p |-> "desc", v |-> info.desc]>> ELSE <<>>)
    \o (IF Has(info, "key") /\ info.key = "PRIMARY"
        THEN <<[p |-> "Primary key"]>> ELSE <<>>)
    \o (IF EndsWith(field, FkSuffix)
        THEN <<[p |-> "Foreign key to", v |-> SliceEnd(field, Len(FkSuffix))]>> ELSE <<>>)
    \o (IF Truthy(info, "validator")
        THEN <<[p |-> "Validator", v |-> info.validator]>> ELSE <<>>)
    \o (IF Has(info, "size") THEN <<[p |-> "Size", v |-> info.size]>> ELSE <<>>)
    \o (IF Truthy(info, "type") /\ info.type \in {"ENUM", "SET"} /\ Has(info, "values")
        THEN <<[p |-> "Values", v |-> info.values]>> ELSE <<>>)
    \o (IF Has(info, "default") THEN <<[p |-> "Default", v |-> info.default]>> ELSE <<>>)

\* The field line of the resource interface
ApiFieldLine(iface, struct, field) ==
    LET info == StructGet(struct, field) IN
    <<[k |-> "prop", of |-> iface, name |-> field, optional |-> FALSE,
       type |-> ConvertToTypeScriptType(TypeOf(info), field, info)
                \o (IF Has(info, "null") /\ info.null = FALSE THEN "" ELSE " | null"),
       synthetic |-> FALSE, comment |-> ApiCommentParts(field, info)]>>

\* The resource interface (table with Struct)
ApiResourceTypes(data) ==
    IF ~(Has(data, "table") /\ Has(data.table, "Struct")) THEN <<>>
    ELSE LET iface == GetTypeName(PathParts(data))
             fieldLine(field) == ApiFieldLine(iface, data.table.Struct, field)
         IN  <<[k |-> "doc", of |-> "resource"], [k |-> "interface", name |-> iface]>>
             \o FlatMap(Fields(data.table.Struct), fieldLine)
             \o <<[k |-> "close"]>>

ParamsSuffix == <<"P", "a", "r", "a", "m", "s">>

\* The Params interface of the procedure: arguments typed from arg.type alone
ApiProcedureTypes(data) ==
    IF ~(Has(data, "procedure") /\ Has(data.procedure, "args")
         /\ Len(data.procedure.args) > 0) THEN <<>>
    ELSE LET iface == GetTypeName(PathParts(data))
                      \o (IF Has(data.procedure, "name")
                          THEN PascalCaseApi(data.procedure.name) ELSE <<>>)
                      \o ParamsSuffix
             argLine(arg) ==
                <<[k |-> "prop", of |-> iface, name |-> arg.name,
                   optional |-> ~(Has(arg, "required") /\ arg.required),
                   type |-> ConvertToTypeScriptType(TypeOf(arg), <<>>, [x \in {} |-> x]),
                   synthetic |-> FALSE,
                   comment |-> IF Truthy(arg, "desc") THEN <<arg.desc>> ELSE <<>>]>>
         IN  <<[k |-> "doc", of |-> "procedure"], [k |-> "interface", name |-> iface]>>
             \o FlatMap(data.procedure.args, argLine)
             \o <<[k |-> "close"]>>

\* inferredType of a method argument, from its name
ApiInferredType(name) ==
    IF name = <<"i", "d">> \/ EndsWith(name, <<"_", "i", "d">>) THEN "string"
    ELSE IF EndsWith(name, FkSuffix) THEN "string"
    ELSE IF name = <<"e", "m", "a", "i", "l">> THEN "string"
    ELSE IF name \in {<<"s", "t", "a", "t", "u", "s">>, <<"t", "y", "p", "e">>}
    THEN "string"
    ELSE IF name \in {<<"p", "a", "g", "e">>, <<"l", "i", "m", "i", "t">>,
                      <<"o", "f", "f", "s", "e", "t">>} THEN "number"
    ELSE IF name \in {<<"o", "p", "t", "i", "o", "n", "s">>,
                      <<"c", "o", "n", "f", "i", "g">>, <<"m", "e", "t", "a">>}
    THEN "Record<string, any>"
    ELSE IF \/ StartsWith(name, <<"i", "s", "_">>)
            \/ StartsWith(name, <<"h", "a", "s", "_">>)
            \/ name \in {<<"a", "c", "t", "i", "v", "e">>,
                         <<"e", "n", "a", "b", "l", "e", "d">>} THEN "boolean"
    ELSE "any"

\* The Params interfaces of the methods that take arguments
ApiMethodTypes(data) ==
    IF ~(Has(data, "func") /\ Len(data.func) > 0) THEN <<>>
    ELSE LET typeName == GetTypeName(PathParts(data))
             ifaceOf(func) == typeName \o PascalCaseApi(func.name)
                              \o ParamsSuffix
             argLine(func, arg) ==
                [k |-> "prop", of |-> ifaceOf(func), name |-> arg.name,
                 optional |-> ~(Has(arg, "required") /\ arg.required),
                 type |-> IF Truthy(arg, "type")
                          THEN ConvertToTypeScriptType(arg.type, <<>>, [x \in {} |-> x])
                          ELSE ApiInferredType(arg.name),
                 synthetic |-> FALSE,
                 comment |-> IF Truthy(arg, "description") THEN <<arg.description>>
                             ELSE IF Truthy(arg, "desc") THEN <<arg.desc>> ELSE <<>>]
             one(func) ==
                IF ~(Has(func, "args") /\ Len(func.args) > 0) THEN <<>>
                ELSE <<[k |-> "doc", of |-> "method"],
                       [k |-> "interface", name |-> ifaceOf(func)]>>
                     \o [i \in DOMAIN func.args |-> argLine(func, func.args[i])]
                     \o <<[k |-> "close"]>>
         IN  FlatMap(data.func, one)

Fence == [k |-> "fence"]

\* generateTypeScriptDefinitions(jsonData, options) of src/src/api.js: every
\* line goes to printOutput
ApiGenerateTypeScriptDefinitions(jsonData, o) ==
    IF ~Has(jsonData, "data") THEN <<NoDataLine>>
    ELSE LET data == jsonData.data
             typeScript == ApiResourceTypes(data) \o ApiProcedureTypes(data)
                           \o ApiMethodTypes(data)
             decl == KlbDateTimeDeclaration(data)
         IN  <<[k |-> "header", path |-> PathParts(data)]>>
             \o (IF decl = <<>> THEN <<>>
                 ELSE IF o.markdownFormat THEN <<Fence>> \o decl \o <<Fence>>
                 ELSE decl)
             \o (IF o.markdownFormat THEN <<Fence>> \o typeScript \o <<Fence>>
                 ELSE IF typeScript = <<>> THEN <<Text("")>> ELSE typeScript)

\* generateTypeScriptDefinitions as describeApi calls it: what reaches
\* console.log and what reaches options.output
GenerateTypeScriptDefinitions(im, jsonData, o) ==
    IF im = "index"
    THEN [con |-> IndexGenerateTypeScriptDefinitions(jsonData), out |-> <<>>]
    ELSE [con |-> <<>>, out |-> ApiGenerateTypeScriptDefinitions(jsonData, o)]

(***************************************************************************)
(* Description Formatter (formatJsonResponse) of both implementations.     *)
(* The result holds the lines written to console.log (con), the lines      *)
(* written to options.output (out) and whether the call threw.             *)
(***************************************************************************)
\* One console.log of formatJsonResponse of src/index.js, which colours its
\* text whatever the options say
IndexLine(s, arg) == [k |-> "fmt", s |-> s, arg |-> arg, ansi |-> TRUE]

\* The sample argument of a usage example
SampleValue(arg) ==
    IF ~Has(arg, "type") THEN "\"...\""
    ELSE CASE arg.type = "bool" -> "true"
           [] arg.type = "number" -> "123"
           [] arg.type = "string" -> "\"value\""
           [] OTHER -> "\"...\""

\* The argument lines of a procedure or of a method
IndexArgumentLines(args) ==
    LET line(arg) ==
           <<IndexLine("argument", <<arg.name, Has(arg, "type"),
                                     Has(arg, "required") /\ arg.required>>)>>
           \o (IF Truthy(arg, "description")
               THEN <<IndexLine("argument description", <<arg.description>>)>>
               ELSE <<>>)
    IN  FlatMap(args, line)

IndexUsageArgs(args) == [i \in DOMAIN args |-> <<args[i].name, SampleValue(args[i])>>]

\* The lines before the sections: path, type, methods, access, description
IndexHead(data) ==
    (IF Has(data, "Path") THEN <<IndexLine("API", data.Path)>> ELSE <<>>)
    \o (IF Has(data, "procedure") THEN <<IndexLine("Type", <<"Procedure">>)>>
        ELSE IF Has(data, "table") THEN <<IndexLine("Type", <<"Resource">>)>>
        ELSE IF Has(data, "prefix") \/ Has(data, "func")
        THEN <<IndexLine("Type", <<"Collection">>)>>
        ELSE <<>>)
    \o (IF Has(data, "allowed_methods")
        THEN <<IndexLine("Methods", data.allowed_methods)>> ELSE <<>>)
    \o (IF Truthy(data, "access") THEN <<IndexLine("Access", <<data.access>>)>> ELSE <<>>)
    \o (IF Truthy(data, "description")
        THEN <<IndexLine("Description", <<>>),
               IndexLine("description", <<data.description>>)>>
        ELSE <<>>)

\* The procedure section, after which formatJsonResponse returns; reading
\* data.allowed_methods.includes throws when allowed_methods is absent
IndexProcedureSection(data) ==
    LET procedure == data.procedure
        args == IF Has(procedure, "args") THEN procedure.args ELSE <<>>
        static == Has(procedure, "static") /\ procedure.static
        details ==
            <<IndexLine("Procedure Details", <<>>),
              IndexLine("Name", <<procedure.name>>),
              IndexLine("Method", <<static>>)>>
            \o (IF Truthy(procedure, "description")
                THEN <<IndexLine("Description", <<>>),
                       IndexLine("description", <<procedure.description>>)>>
                ELSE <<>>)
        usage ==
            <<IndexLine("Usage", <<>>), IndexLine("# JavaScript", <<>>),
              IndexLine("klbfw.rest", <<data.Path, procedure.name, static,
                                        IndexUsageArgs(args)>>)>>
        url ==
            IF "GET" \in Range(data.allowed_methods) /\ Len(args) > 0
            THEN <<IndexLine("# URL Format", <<>>),
                   IndexLine("GET", <<data.Path, procedure.name, static,
                                      IndexUsageArgs(args)>>)>>
            ELSE <<>>
        arguments ==
            (IF Len(args) > 0
             THEN <<IndexLine("Arguments", <<>>)>> \o IndexArgumentLines(args)
             ELSE <<IndexLine("No arguments required", <<>>)>>)
            \o (IF Truthy(procedure, "return_description")
                THEN <<IndexLine("Returns", <<>>),
                       IndexLine("returns", <<procedure.return_description>>)>>
                ELSE <<>>)
    IN  IF ~Has(data, "Path") THEN [con |-> details \o arguments, threw |-> FALSE]
        ELSE IF ~Has(data, "allowed_methods")
        THEN [con |-> details \o usage, threw |-> TRUE]
        ELSE [con |-> details \o usage \o url \o arguments, threw |-> FALSE]

\* The resource section; Object.keys(data.table.Struct) throws when the table
\* has no Struct, and _primary.join throws when _primary is no list
IndexTableSection(data) ==
    IF ~Has(data, "table") THEN [con |-> <<>>, threw |-> FALSE]
    ELSE
    LET table == data.table
        head == <<IndexLine("Resource Details", <<>>),
                  IndexLine("Name", <<IF Has(table, "Name") THEN table.Name
                                      ELSE "undefined">>)>>
    IN  IF ~Has(table, "Struct") THEN [con |-> head, threw |-> TRUE]
        ELSE
        LET struct == table.Struct
            fields == Fields(struct)
            textFields == {SliceEnd(fields[i], TextSuffixLen) :
                              i \in {j \in DOMAIN fields : EndsWith(fields[j], TextSuffix)}}
            fieldLines(field) ==
               LET info == StructGet(struct, field) IN
               <<IndexLine("field",
                           <<field, Truthy(info, "type"),
                             Has(info, "null") /\ info.null = FALSE,
                             IF EndsWith(field, TextSuffix) THEN "translatable text ID"
                             ELSE IF field \in textFields
                             THEN "auto-generated translated text"
                             ELSE "">>)>>
               \o (IF Truthy(info, "description")
                   THEN <<IndexLine("field description", <<info.description>>)>>
                   ELSE <<>>)
               \o (IF EndsWith(field, TextSuffix)
                   THEN <<IndexLine("translatable note",
                                    <<SliceEnd(field, TextSuffixLen)>>)>>
                   ELSE <<>>)
        IN  IF StructHas(struct, PrimaryKey) /\ ~Has(StructGet(struct, PrimaryKey), "list")
            THEN [con |-> head \o <<IndexLine("Fields", <<Len(fields)>>)>>,
                  threw |-> TRUE]
            ELSE
            [con |-> head
                     \o <<IndexLine("Fields", <<Len(fields)>>)>>
                     \o (IF StructHas(struct, PrimaryKey)
                         THEN <<IndexLine("Primary Key",
                                          StructGet(struct, PrimaryKey).list)>>
                         ELSE <<>>)
                     \o (IF Len(fields) > 0
                         THEN <<IndexLine("All Fields", <<>>)>>
                              \o FlatMap(fields, fieldLines)
                         ELSE <<>>),
             threw |-> FALSE]

\* The methods section
IndexFuncSection(data) ==
    IF ~(Has(data, "func") /\ Len(data.func) > 0) THEN <<>>
    ELSE LET method(func) ==
                LET args == IF Has(func, "args") THEN func.args ELSE <<>>
                    static == Has(func, "static") /\ func.static
                IN  <<IndexLine("method", <<func.name, static>>)>>
                    \o (IF Truthy(func, "description")
                        THEN <<IndexLine("method description", <<func.description>>)>>
                        ELSE <<>>)
                    \o (IF Len(args) > 0
                        THEN <<IndexLine("Arguments", <<>>)>> \o IndexArgumentLines(args)
                        ELSE <<>>)
                    \o (IF Truthy(func, "return_type")
                        THEN <<IndexLine("Returns", <<func.return_type>>)>> ELSE <<>>)
                    \o (IF Truthy(func, "return_description")
                        THEN <<IndexLine("Return Description",
                                         <<func.return_description>>)>>
                        ELSE <<>>)
                    \o (IF Has(data, "Path")
                        THEN <<IndexLine("Usage", <<>>),
                               IndexLine("klbfw.rest", <<data.Path, func.name, static,
                                                         IndexUsageArgs(args)>>)>>
                        ELSE <<>>)
                    \o <<IndexLine("blank", <<>>)>>
         IN  <<IndexLine("Available Methods", <<>>)>> \o FlatMap(data.func, method)

\* The first letters of the sub-endpoint names, upper-cased: the groups
PrefixLetters(prefix) == {ToUpperChar(prefix[i].name[1]) : i \in DOMAIN prefix}

\* Object.keys(groups).sort(): the letters in code-unit order, upper-case
\* letters then the rest
RECURSIVE SortLetters(_)
SortLetters(letters) ==
    IF letters = {} THEN <<>>
    ELSE LET rank(c) == IF IsUpper(c)
                        THEN CHOOSE i \in DOMAIN UpperLetters : UpperLetters[i] = c
                        ELSE Len(UpperLetters) + 1
             first == CHOOSE c \in letters : \A d \in letters : rank(c) <= rank(d)
         IN  <<first>> \o SortLetters(letters \ {first})

\* The sub-endpoints section; prefix.name.charAt throws when an entry has no
\* name
IndexPrefixSection(data) ==
    IF ~(Has(data, "prefix") /\ Len(data.prefix) > 0) THEN [con |-> <<>>, threw |-> FALSE]
    ELSE LET head == <<IndexLine("Sub-endpoints", <<>>)>>
             group(letter) ==
                <<IndexLine("group",
                            <<letter,
                              SelectSeq(data.prefix,
                                        LAMBDA e : ToUpperChar(e.name[1]) = letter)>>)>>
         IN  IF \E i \in DOMAIN data.prefix : ~Has(data.prefix[i], "name")
             THEN [con |-> head, threw |-> TRUE]
             ELSE [con |-> head \o FlatMap(SortLetters(PrefixLetters(data.prefix)), group),
                   threw |-> FALSE]

\* formatJsonResponse(jsonData, options) of src/index.js: every line goes to
\* console.log and options.output is never read
IndexFormatJsonResponse(jsonData) ==
    IF ~Has(jsonData, "data")
    THEN [con |-> <<NoDataLine>>, out |-> <<>>, threw |-> FALSE]
    ELSE LET data == jsonData.data
             head == IndexHead(data)
         IN  IF Has(data, "procedure")
             THEN LET p == IndexProcedureSection(data)
                  IN  [con |-> head \o p.con, out |-> <<>>, threw |-> p.threw]
             ELSE LET t == IndexTableSection(data)
                      x == IndexPrefixSection(data)
                  IN  IF t.threw THEN [con |-> head \o t.con, out |-> <<>>, threw |-> TRUE]
                      ELSE [con |-> head \o t.con \o IndexFuncSection(data) \o x.con,
                            out |-> <<>>, threw |-> x.threw]

\* format(colorFn, text) adds ANSI codes: outside markdown, with useColors
Ansi(o) == ~o.markdownFormat /\ o.useColors

\* One printOutput of formatJsonResponse of src/src/api.js
ApiLine(s, arg, o) ==
    [k |-> "fmt", s |-> s, arg |-> arg, ansi |-> Ansi(o), markdown |-> o.markdownFormat]

\* A heading with its text: one line in markdown, two lines otherwise
ApiHeadedText(s, text, o) ==
    IF o.markdownFormat THEN <<ApiLine(s, <<text>>, o)>>
    ELSE <<ApiLine(s, <<>>, o), ApiLine("text", <<text>>, o)>>

\* description, else desc
ApiDescription(x) ==
    IF Truthy(x, "description") THEN <<x.description>>
    ELSE IF Truthy(x, "desc") THEN <<x.desc>>
    ELSE <<>>

\* The rows of an argument table
ApiArgumentRows(args, o) ==
    LET row(arg) ==
           <<ApiLine("argument",
                     <<IF Has(arg, "name") THEN arg.name ELSE <<>>,
                       IF Truthy(arg, "type") THEN arg.type ELSE "",
                       Has(arg, "required") /\ arg.required,
                       IF Truthy(arg, "description") THEN arg.description
                       ELSE IF Truthy(arg, "desc") THEN arg.desc ELSE "">>, o)>>
    IN  FlatMap(args, row)

ApiHead(data, o) ==
    (IF Has(data, "Path") THEN <<ApiLine("API Path", data.Path, o)>> ELSE <<>>)
    \o (IF Truthy(data, "type") THEN <<ApiLine("Type", <<data.type>>, o)>> ELSE <<>>)
    \o (IF Truthy(data, "description")
        THEN ApiHeadedText("Class Description", data.description, o)
        ELSE IF Truthy(data, "desc") THEN ApiHeadedText("Description", data.desc, o)
        ELSE <<>>)
    \o (IF Truthy(data, "access")
        THEN <<ApiLine("Access Level", <<data.access>>, o)>> ELSE <<>>)
    \o (IF Has(data, "allowed_methods") /\ Len(data.allowed_methods) > 0
        THEN <<ApiLine("Allowed Methods", data.allowed_methods, o)>> ELSE <<>>)
    \o (IF Has(data, "allowed_methods_object") /\ Len(data.allowed_methods_object) > 0
        THEN <<ApiLine("Allowed Object Methods", data.allowed_methods_object, o)>>
        ELSE <<>>)

ApiPrefixSection(data, o) ==
    IF ~(Has(data, "prefix") /\ Len(data.prefix) > 0) THEN <<>>
    ELSE LET row(prefix) ==
                <<ApiLine("subresource",
                          <<IF Has(prefix, "name") THEN prefix.name ELSE <<>>,
                            IF Has(prefix, "methods") THEN prefix.methods ELSE <<>>>>, o)>>
         IN  (IF o.markdownFormat
              THEN <<ApiLine("Available Subresources", <<>>, o),
                     ApiLine("table header", <<>>, o), ApiLine("table rule", <<>>, o)>>
              ELSE <<ApiLine("Available Subresources", <<>>, o)>>)
             \o FlatMap(data.prefix, row)

ApiTableSection(data, o) ==
    IF ~(Has(data, "table") /\ Has(data.table, "Struct")) THEN <<>>
    ELSE LET struct == data.table.Struct
             row(field) ==
                LET info == StructGet(struct, field) IN
                <<ApiLine("field",
                          <<field,
                            IF Truthy(info, "type") THEN info.type ELSE "",
                            Has(info, "values"),
                            Has(info, "size"),
                            Has(info, "null") /\ info.null = FALSE,
                            IF Truthy(info, "validator") THEN info.validator ELSE "",
                            Has(info, "key") /\ info.key = "PRIMARY",
                            EndsWith(field, FkSuffix)>>, o)>>
         IN  (IF o.markdownFormat
              THEN <<ApiLine("Table Structure", <<>>, o),
                     ApiLine("table header", <<>>, o), ApiLine("table rule", <<>>, o)>>
              ELSE <<ApiLine("Table Structure", <<>>, o)>>)
             \o FlatMap(Fields(struct), row)
             \o (IF StructHas(struct, PrimaryKey)
                 THEN <<ApiLine("Primary Key",
                                IF Has(StructGet(struct, PrimaryKey), "list")
                                THEN StructGet(struct, PrimaryKey).list
                                ELSE <<StructGet(struct, PrimaryKey).text>>, o)>>
                 ELSE <<>>)

ApiProcedureSection(data, o) ==
    IF ~Has(data, "procedure") THEN <<>>
    ELSE LET procedure == data.procedure
             args == IF Has(procedure, "args") THEN procedure.args ELSE <<>>
             description == ApiDescription(procedure)
         IN  <<ApiLine("Procedure",
                       <<IF Has(procedure, "name") THEN procedure.name ELSE <<>>>>, o)>>
             \o (IF description # <<>>
                 THEN <<ApiLine("text", description, o)>> ELSE <<>>)
             \o (IF Truthy(procedure, "return_description")
                 THEN <<ApiLine("Returns", <<procedure.return_description>>, o)>>
                 ELSE <<>>)
             \o (IF Len(args) > 0
                 THEN (IF o.markdownFormat
                       THEN <<ApiLine("Arguments", <<>>, o),
                              ApiLine("table header", <<>>, o),
                              ApiLine("table rule", <<>>, o)>>
                       ELSE <<ApiLine("Arguments", <<>>, o)>>)
                      \o ApiArgumentRows(args, o)
                 ELSE <<>>)

ApiFuncSection(data, o) ==
    IF ~(Has(data, "func") /\ Len(data.func) > 0) THEN <<>>
    ELSE LET method(func) ==
                LET args == IF Has(func, "args") THEN func.args ELSE <<>>
                    description == ApiDescription(func)
                IN  <<ApiLine("method",
                              <<IF Has(func, "name") THEN func.name ELSE <<>>,
                                Has(func, "static") /\ func.static>>, o)>>
                    \o (IF description # <<>>
                        THEN <<ApiLine("text", description, o)>> ELSE <<>>)
                    \o (IF Truthy(func, "return_description")
                        THEN <<ApiLine("Returns", <<func.return_description>>, o)>>
                        ELSE <<>>)
                    \o (IF Len(args) > 0
                        THEN (IF o.markdownFormat
                              THEN <<ApiLine("Arguments", <<>>, o),
                                     ApiLine("table header", <<>>, o),
                                     ApiLine("table rule", <<>>, o)>>
                              ELSE <<ApiLine("Arguments", <<>>, o)>>)
                             \o ApiArgumentRows(args, o)
                        ELSE <<>>)
                    \o <<ApiLine("blank", <<>>, o)>>
         IN  <<ApiLine("Available Methods", <<>>, o)>> \o FlatMap(data.func, method)

\* formatJsonResponse(jsonData, options) of src/src/api.js: every line goes to
\* printOutput, and the sections follow each other without an early return
ApiFormatJsonResponse(jsonData, o) ==
    IF ~Has(jsonData, "data")
    THEN [con |-> <<>>, out |-> <<NoDataLine>>, threw |-> FALSE]
    ELSE LET data == jsonData.data
         IN  [con |-> <<>>,
              out |-> ApiHead(data, o) \o ApiPrefixSection(data, o)
                      \o ApiTableSection(data, o) \o ApiProcedureSection(data, o)
                      \o ApiFuncSection(data, o),
              threw |-> FALSE]

\* formatJsonResponse of the implementation im
FormatJsonResponse(im, jsonData, o) ==
    IF im = "index" THEN IndexFormatJsonResponse(jsonData)
    ELSE ApiFormatJsonResponse(jsonData, o)

(***************************************************************************)
(* Inputs.                                                                 *)
(***************************************************************************)
MaxFields == 2

\* No request is in flight
NoRequest == [got |-> 0]

MaxArgs == 2

EmptyObject == [x \in {} |-> x]

\* The objects with property k drawn from S, or without it
Opt(k, S) == {EmptyObject} \cup {(k :> v) : v \in S}

\* The lists of at most n distinct elements of S
ListsUpTo(S, n) ==
    UNION {{l \in [1..m -> S] : \A i, j \in 1..m : i # j => l[i] # l[j]} : m \in 0..n}

\* RenderOptions of the command line and of the protocol tools
RenderOptions ==
    {[useColors |-> TRUE, markdownFormat |-> FALSE],
     [useColors |-> FALSE, markdownFormat |-> TRUE]}

n_x == <<"x">>

n_Country == <<"C", "o", "u", "n", "t", "r", "y", "_", "_">>

n_id == <<"i", "d">>

n_name == <<"n", "a", "m", "e">>

n_Name == <<"N", "a", "m", "e">>

n_NameText == n_Name \o TextSuffix

n_created == <<"c", "r", "e", "a", "t", "e", "d">>

n_User == <<"U", "s", "e", "r">>

ValuePairs == {<<"a", "b">>, <<"b", "c">>}

\* FieldInfo values for the Type Mapper
MapFieldInfos ==
    {t @@ v @@ l @@ n :
        t \in Opt("type", {"", "int", "ENUM", "Enum", "enum", "datetime", "text", "geo"}),
        v \in Opt("validator", ValidatorMap \cup {"ipv4"}),
        l \in Opt("values", ValuePairs),
        n \in Opt("null", BOOLEAN)}

MapInputs == {[field |-> f, info |-> i] : f \in {n_x, n_Country}, i \in MapFieldInfos}

\* The description document of a table with the one field of a Type Mapper input
OneFieldDoc(in) ==
    [data |-> [Path |-> <<n_User>>,
               table |-> [Name |-> "User",
                          Struct |-> <<[name |-> in.field, info |-> in.info]>>]]]

\* Table fields of the description documents
FieldPool ==
    {[name |-> n_id,
      info |-> [type |-> "char", validator |-> "uuid", null |-> FALSE, key |-> "PRIMARY"]],
     [name |-> n_name, info |-> [type |-> "varchar", null |-> TRUE]],
     [name |-> n_NameText, info |-> [type |-> "char", size |-> 36]],
     [name |-> n_Name, info |-> [type |-> "varchar", null |-> FALSE]],
     [name |-> n_created, info |-> [type |-> "DATETIME", null |-> FALSE]]}

FieldPool_id ==
    [name |-> n_id,
     info |-> [type |-> "char", validator |-> "uuid", null |-> FALSE, key |-> "PRIMARY"]]

FieldPool_NameText == [name |-> n_NameText, info |-> [type |-> "char", size |-> 36]]

PrimaryOptions ==
    {<<>>, <<[name |-> PrimaryKey, info |-> [list |-> <<n_id>>]]>>,
     <<[name |-> PrimaryKey, info |-> [list |-> <<n_id, n_name>>]]>>}

Structs == {f \o p : f \in ListsUpTo(FieldPool, MaxFields), p \in PrimaryOptions}

ArgPool ==
    {[name |-> <<"a", "m", "o", "u", "n", "t">>, type |-> "number", required |-> TRUE],
     [name |-> <<"u", "s", "e", "r", "_", "i", "d">>, type |-> "int",
      description |-> "owner"],
     [name |-> <<"i", "s", "_", "a", "c", "t", "i", "v", "e">>, desc |-> "flag"],
     [name |-> <<"w", "h", "e", "n">>, type |-> "timestamp", required |-> FALSE]}

ArgLists == ListsUpTo(ArgPool, MaxArgs)

Methods(args) ==
    <<[name |-> <<"l", "i", "s", "t">>, args |-> args],
      [name |-> <<"g", "e", "t", "_", "b", "y">>, static |-> TRUE, args |-> args,
       return_type |-> "User"]>>

\* The document that JSON.parse makes of the text `null`
NullDocument == [jsnull |-> TRUE]

\* Reading a property of the parsed document throws when the document is null
IsNullDocument(jsonData) == Has(jsonData, "jsnull")

\* Description documents: every combination of table, procedure and func over
\* one argument list, and the documents without data
Docs ==
    {NullDocument, EmptyObject, [error |-> "no data"]}
    \cup UNION {{[data |-> ([Path |-> <<n_User>>] @@ t @@ p @@ f)] :
                    t \in Opt("table", {[Name |-> "User"]}
                            \cup {[Name |-> "User", Struct |-> st] : st \in Structs}),
                    p \in Opt("procedure", {[name |-> <<"c", "r", "e", "a", "t", "e">>,
                                             static |-> TRUE, args |-> a]}),
                    f \in Opt("func", {Methods(a)})} : a \in ArgLists}

(***************************************************************************)
(* SpecMap: the Type Mapper on one FieldInfo, alone and through the        *)
(* resource interface of a one-field table.                                *)
(***************************************************************************)
MapInit ==
    /\ impl \in Impls
    /\ pc = "ready"
    /\ input \in MapInputs
    /\ opts \in RenderOptions
    /\ sink = <<>>
    /\ console = <<>>
    /\ result = ""
    /\ req = NoRequest

\* mapToTsType(info.type, info) / convertToTypeScriptType(info.type, field, info)
MapField ==
    /\ pc = "ready"
    /\ pc' = "mapped"
    /\ result' = MapType(impl, input.field, input.info)
    /\ UNCHANGED <<impl, input, opts, sink, console, req>>

\* generateTypeScriptDefinitions on the table that holds the field
GenerateField ==
    /\ pc = "ready"
    /\ pc' = "generated"
    /\ LET r == GenerateTypeScriptDefinitions(impl, OneFieldDoc(input), opts)
       IN  /\ console' = console \o r.con
           /\ sink' = sink \o r.out
    /\ UNCHANGED <<impl, input, opts, result, req>>

MapNext == MapField \/ GenerateField

SpecMap == MapInit /\ [][MapNext]_vars

(***************************************************************************)
(* SpecTs: the TypeScript Emitter on one description document.             *)
(***************************************************************************)
TsInit ==
    /\ impl \in Impls
    /\ pc = "ready"
    /\ input \in Docs
    /\ opts \in RenderOptions
    /\ sink = <<>>
    /\ console = <<>>
    /\ result = ""
    /\ req = NoRequest

\* generateTypeScriptDefinitions(jsonData, options); reading jsonData.data
\* throws when jsonData is null
Generate ==
    /\ pc = "ready"
    /\ IF IsNullDocument(input)
       THEN pc' = "threw" /\ UNCHANGED <<console, sink>>
       ELSE /\ pc' = "generated"
            /\ LET r == GenerateTypeScriptDefinitions(impl, input, opts)
               IN  /\ console' = console \o r.con
                   /\ sink' = sink \o r.out
    /\ UNCHANGED <<impl, input, opts, result, req>>

\* formatJsonResponse(jsonData, options); reading jsonData.data throws when
\* jsonData is null
FormatDescription ==
    /\ pc = "ready"
    /\ IF IsNullDocument(input)
       THEN pc' = "threw" /\ UNCHANGED <<console, sink>>
       ELSE LET r == FormatJsonResponse(impl, input, opts)
            IN  /\ pc' = IF r.threw THEN "threw" ELSE "described"
                /\ console' = console \o r.con
                /\ sink' = sink \o r.out
    /\ UNCHANGED <<impl, input, opts, result, req>>

TsNext == Generate \/ FormatDescription

SpecTs == TsInit /\ [][TsNext]_vars


(***************************************************************************)
(* SpecDoc: the Description Formatter on one description document, the     *)
(* documents with a missing nested structure included.                     *)
(***************************************************************************)
\* The tables: without Struct, with the fields alone, with a _primary list
\* and with a _primary that is no list
DocTables ==
    {[Name |-> "User"],
     [Name |-> "User", Struct |-> <<FieldPool_id, FieldPool_NameText>>],
     [Name |-> "User",
      Struct |-> <<FieldPool_id, [name |-> PrimaryKey, info |-> [list |-> <<n_id>>]]>>],
     [Name |-> "User",
      Struct |-> <<FieldPool_id, [name |-> PrimaryKey, info |-> [text |-> "id"]]>>]}

DocProcedures ==
    {[name |-> <<"c", "r", "e", "a", "t", "e">>, static |-> TRUE, args |-> a] :
        a \in ListsUpTo(ArgPool, 1)}
    \cup {[name |-> <<"p", "i", "n", "g">>, desc |-> "no arguments"]}

\* The sub-resources: named, and with an entry that has no name
DocPrefixes ==
    {<<[name |-> n_name, methods |-> <<"GET">>], [name |-> n_Name]>>,
     <<[name |-> n_name], [methods |-> <<"GET">>]>>}

\* Description documents with every combination of Path, allowed_methods,
\* table, procedure, func and prefix
FormatterDocuments ==
    {[data |-> (pa @@ am @@ t @@ p @@ f @@ x)] :
        pa \in Opt("Path", {<<n_User>>}),
        am \in Opt("allowed_methods", {<<"GET">>, <<"POST">>}),
        t \in Opt("table", DocTables),
        p \in Opt("procedure", DocProcedures),
        f \in Opt("func", {Methods(<<>>)}),
        x \in Opt("prefix", DocPrefixes)}

DocInit ==
    /\ impl \in Impls
    /\ pc = "ready"
    /\ input \in FormatterDocuments
    /\ opts \in RenderOptions
    /\ sink = <<>>
    /\ console = <<>>
    /\ result = ""
    /\ req = NoRequest

DocNext == FormatDescription

SpecDoc == DocInit /\ [][DocNext]_vars

(***************************************************************************)
(* Pretty-printer of src/index.js (formatObject).                          *)
(* A JSON value is a record tagged with its typeof/shape; an object keeps  *)
(* its entries in insertion order, as Object.keys enumerates them.         *)
(***************************************************************************)
Str(s) == [t |-> "string", s |-> s]
Num(n) == [t |-> "number", n |-> n]
Bool(b) == [t |-> "boolean", b |-> b]
Null == [t |-> "null"]
Arr(items) == [t |-> "array", items |-> items]
Obj(entries) == [t |-> "object", entries |-> entries]

\* Object.keys(obj)
Keys(obj) == [i \in DOMAIN obj.entries |-> obj.entries[i].key]

\* obj[key] !== undefined
HasKey(obj, key) == \E i \in DOMAIN obj.entries : obj.entries[i].key = key

\* obj[key]
ObjGet(obj, key) ==
    obj.entries[CHOOSE i \in DOMAIN obj.entries : obj.entries[i].key = key].val

\* typeof item !== 'object' || item === null
IsPrimitive(v) == v.t \in {"string", "number", "boolean", "null"}

\* The collation order of String.prototype.localeCompare over the characters
\* of keys: punctuation, then digits, then letters; case decides only
\* between strings that are otherwise equal, lower case first.
CollationOrder ==
    <<"_", "0", "1", "2", "3", "4", "5", "6", "7", "8", "9">> \o LowerLetters

ToLowerChar(c) ==
    IF IsUpper(c)
    THEN LowerLetters[CHOOSE i \in DOMAIN UpperLetters : UpperLetters[i] = c]
    ELSE c

KeyCharacters == Range(CollationOrder) \cup Range(UpperLetters)

\* The primary weight of a character: its place in the collation order,
\* whatever its case
PrimaryWeight ==
    [c \in KeyCharacters |->
        CHOOSE i \in DOMAIN CollationOrder : CollationOrder[i] = ToLowerChar(c)]

\* The case weight of a character: lower case first
CaseWeight == [c \in KeyCharacters |-> IF IsUpper(c) THEN 1 ELSE 0]

\* The positions at which two sequences of weights differ
Differences(x, y) == {i \in 1..Min(Len(x), Len(y)) : x[i] # y[i]}

Lowest(S) == CHOOSE d \in S : \A e \in S : d <= e

CompareAt(x, y, i) == IF x[i] < y[i] THEN -1 ELSE 1

CompareLengths(x, y) ==
    IF Len(x) < Len(y) THEN -1 ELSE IF Len(x) > Len(y) THEN 1 ELSE 0

CompareFrom(x, y, diff) ==
    IF diff # {} THEN CompareAt(x, y, Lowest(diff)) ELSE CompareLengths(x, y)

\* Lexicographic comparison of two sequences of weights
CompareWeights(x, y) == CompareFrom(x, y, Differences(x, y))

\* The weights w of the characters of a
Weights(a, w) == [i \in DOMAIN a |-> w[a[i]]]

\* Case decides when the primary weights are equal
ByCaseWhenEqual(primary, a, b) ==
    IF primary # 0 THEN primary
    ELSE CompareWeights(Weights(a, CaseWeight), Weights(b, CaseWeight))

\* a.localeCompare(b)
LocaleCompare(a, b) ==
    ByCaseWhenEqual(CompareWeights(Weights(a, PrimaryWeight), Weights(b, PrimaryWeight)),
                    a, b)

\* The comparator formatObject passes to sort
CompareKeys(a, b) ==
    IF EndsWith(a, TextSuffix) /\ b = SliceEnd(a, TextSuffixLen) THEN -1
    ELSE IF EndsWith(b, TextSuffix) /\ a = SliceEnd(b, TextSuffixLen) THEN 1
    ELSE LocaleCompare(a, b)

Reverse(seq) == [i \in DOMAIN seq |-> seq[Len(seq) + 1 - i]]

\* Array.prototype.sort, first step: whether element idx continues the run
RunContinues(w, idx, isDescending) ==
    IF isDescending THEN CompareKeys(w[idx], w[idx - 1]) < 0
    ELSE CompareKeys(w[idx], w[idx - 1]) >= 0

\* Array.prototype.sort, first step: the length of the run w starts with
RunLength(w, isDescending) ==
    CHOOSE r \in 2..Len(w) :
        /\ \A idx \in 3..r : RunContinues(w, idx, isDescending)
        /\ r < Len(w) => ~RunContinues(w, r + 1, isDescending)

\* Array.prototype.sort, first step: a strictly descending run is reversed in
\* place
MakeRun(w, runLength, isDescending) ==
    [run |-> runLength,
     arr |-> IF isDescending
             THEN Reverse(SubSeq(w, 1, runLength)) \o SubSeq(w, runLength + 1, Len(w))
             ELSE w]

MakeRunOf(w, isDescending) == MakeRun(w, RunLength(w, isDescending), isDescending)

CountAndMakeRun(w) ==
    IF Len(w) < 2 THEN [run |-> Len(w), arr |-> w]
    ELSE MakeRunOf(w, CompareKeys(w[2], w[1]) < 0)

\* Array.prototype.sort, second step: where the binary search places pivot in
\* the sorted prefix w[left+1 .. right]
RECURSIVE InsertionPoint(_, _, _, _)
InsertionPoint(w, pivot, left, right) ==
    IF left >= right THEN left
    ELSE IF CompareKeys(pivot, w[left + ((right - left) \div 2) + 1]) < 0
    THEN InsertionPoint(w, pivot, left, left + ((right - left) \div 2))
    ELSE InsertionPoint(w, pivot, left + ((right - left) \div 2) + 1, right)

\* w with w[start + 1] moved to position left + 1
InsertAt(w, left, start) ==
    SubSeq(w, 1, left) \o <<w[start + 1]>> \o SubSeq(w, left + 1, start)
    \o SubSeq(w, start + 2, Len(w))

\* Array.prototype.sort, second step: binary insertion of w[start+1 ..] into
\* the sorted run w[1 .. start]
RECURSIVE BinaryInsertionSort(_, _)
BinaryInsertionSort(w, start) ==
    IF start >= Len(w) THEN w
    ELSE BinaryInsertionSort(InsertAt(w, InsertionPoint(w, w[start + 1], 0, start), start),
                             start + 1)

SortRun(made) == BinaryInsertionSort(made.arr, made.run)

\* [...keys].sort(comparator), for the arrays of fewer than 64 keys that make
\* one run
SortKeys(keys) == SortRun(CountAndMakeRun(keys))

\* The number of array items formatObject displays
MaxDisplayItems == 5

ValueLine(depth, v, o) == [k |-> "value", indent |-> depth, value |-> v, ansi |-> Ansi(o)]

SummaryLine(depth, of, count, o) ==
    [k |-> "summary", indent |-> depth, of |-> of, count |-> count,
     markdown |-> o.markdownFormat, ansi |-> Ansi(o)]

Punct(depth, c) == [k |-> "punct", indent |-> depth, c |-> c]

EntryLine(depth, key, v, note, o) ==
    [k |-> "entry", indent |-> depth, key |-> key, value |-> v, note |-> note,
     ansi |-> Ansi(o)]

KeyLine(depth, key, o) == [k |-> "key", indent |-> depth, key |-> key, ansi |-> Ansi(o)]

k_unix == <<"u", "n", "i", "x">>

k_iso == <<"i", "s", "o">>

k_tz == <<"t", "z">>

\* obj.unix, obj.iso and obj.tz are all defined
IsKlbDateTime(obj) == HasKey(obj, k_unix) /\ HasKey(obj, k_iso) /\ HasKey(obj, k_tz)

\* textFields: the bases of the string-valued keys that end in _Text__
TextFields(obj) ==
    {SliceEnd(obj.entries[i].key, TextSuffixLen) :
        i \in {j \in DOMAIN obj.entries :
                  /\ EndsWith(obj.entries[j].key, TextSuffix)
                  /\ obj.entries[j].val.t = "string"}}

\* The `,` after the field at position i of sortedKeys
FieldComma(sortedKeys, textFields, i, depth) ==
    IF /\ i < Len(sortedKeys)
       /\ ~(/\ sortedKeys[i + 1] \in textFields
            /\ sortedKeys[i + 1] = SliceEnd(sortedKeys[i], TextSuffixLen))
    THEN <<Punct(depth + 1, ",")>>
    ELSE <<>>

\* The line of a translatable ID and the line of its translated text
TranslatableLines(obj, key, baseFieldName, depth, o) ==
    <<EntryLine(depth + 1, key, ObjGet(obj, key), "Translatable ID", o)>>
    \o (IF HasKey(obj, baseFieldName)
        THEN <<EntryLine(depth + 1, baseFieldName, ObjGet(obj, baseFieldName),
                         "Translated text", o)>>
        ELSE <<>>)

\* The marker after the displayed items: `... ${obj.length - 5} more items`
MoreLine(depth, count, o) ==
    [k |-> "more", indent |-> depth, text |-> <<"... ", count, " more items">>,
     ansi |-> Ansi(o)]

\* depth > maxDepth: the limit one level later
AtDepthLimitLater(depth, maxDepth) == depth > maxDepth

\* depth >= maxDepth
AtDepthLimit(depth, maxDepth) == depth >= maxDepth

k_full == <<"f", "u", "l", "l">>

\* The braces with every key but unix between them
KlbDateTimeLinesWithTz(obj, depth, o) ==
    <<Punct(depth, "{"),
      EntryLine(depth + 1, k_iso, ObjGet(obj, k_iso), "", o),
      EntryLine(depth + 1, k_tz, ObjGet(obj, k_tz), "", o),
      Punct(depth, "}")>>

\* The lines of an object of the KlbDateTime shape: the braces, opened before
\* the shape is tested, with the iso line between them
KlbDateTimeLines(obj, depth, o) ==
    <<Punct(depth, "{"),
      EntryLine(depth + 1, k_iso, ObjGet(obj, k_iso), "", o),
      Punct(depth, "}")>>

RECURSIVE FormatObject(_, _, _, _)

\* One iteration of sortedKeys.forEach
RECURSIVE FormatField(_, _, _, _, _, _)
FormatField(obj, key, value, depth, maxDepth, o) ==
    IF EndsWith(key, TextSuffix) /\ value.t = "string"
    THEN TranslatableLines(obj, key, SliceEnd(key, TextSuffixLen), depth, o)
    ELSE IF value.t \in {"object", "array"}
    THEN <<KeyLine(depth + 1, key, o)>> \o FormatObject(value, depth + 1, maxDepth, o)
    ELSE <<EntryLine(depth + 1, key, value, "", o)>>

\* sortedKeys.forEach: the companions of translatable IDs are skipped, before
\* the `,` is considered
RECURSIVE FormatFields(_, _, _, _, _, _, _)
FormatFields(obj, sortedKeys, textFields, i, depth, maxDepth, o) ==
    IF i > Len(sortedKeys) THEN <<>>
    ELSE (IF sortedKeys[i] \in textFields THEN <<>>
          ELSE FormatField(obj, sortedKeys[i], ObjGet(obj, sortedKeys[i]),
                           depth, maxDepth, o)
               \o FieldComma(sortedKeys, textFields, i, depth))
         \o FormatFields(obj, sortedKeys, textFields, i + 1, depth, maxDepth, o)

\* The items of an array shown vertically, a `,` between them
RECURSIVE FormatItems(_, _, _, _, _, _)
FormatItems(items, i, shown, depth, maxDepth, o) ==
    IF i > shown THEN <<>>
    ELSE FormatObject(items[i], depth + 1, maxDepth, o)
         \o (IF i < shown THEN <<Punct(depth + 1, ",")>> ELSE <<>>)
         \o FormatItems(items, i + 1, shown, depth, maxDepth, o)

\* formatObject(obj, depth, maxDepth, options): the lines it prints
FormatObject(obj, depth, maxDepth, o) ==
    IF IsPrimitive(obj) THEN <<ValueLine(depth, obj, o)>>
    ELSE IF obj.t = "array" THEN
        IF Len(obj.items) = 0 THEN <<ValueLine(depth, obj, o)>>
        ELSE IF AtDepthLimit(depth, maxDepth)
        THEN <<SummaryLine(depth, "array", Len(obj.items), o)>>
        ELSE IF /\ \A i \in DOMAIN obj.items : IsPrimitive(obj.items[i])
                /\ Len(obj.items) <= MaxDisplayItems
        THEN <<[k |-> "inline", indent |-> depth, items |-> obj.items, ansi |-> Ansi(o)]>>
        ELSE <<Punct(depth, "[")>>
             \o FormatItems(obj.items, 1, Min(Len(obj.items), MaxDisplayItems),
                            depth, maxDepth, o)
             \o (IF Len(obj.items) > MaxDisplayItems
                 THEN <<MoreLine(depth + 1, Len(obj.items) - MaxDisplayItems, o)>>
                 ELSE <<>>)
             \o <<Punct(depth, "]")>>
    ELSE
        IF Len(obj.entries) = 0 THEN <<ValueLine(depth, obj, o)>>
        ELSE IF AtDepthLimit(depth, maxDepth)
        THEN <<SummaryLine(depth, "object", Len(obj.entries), o)>>
        ELSE IF IsKlbDateTime(obj)
        THEN KlbDateTimeLines(obj, depth, o)
        ELSE <<Punct(depth, "{")>>
             \o FormatFields(obj, SortKeys(Keys(obj)), TextFields(obj), 1,
                             depth, maxDepth, o)
             \o <<Punct(depth, "}")>>

(***************************************************************************)
(* Inputs and specification of the pretty-printer (SpecFmt).               *)
(***************************************************************************)
MaxKeys == 3

\* maxDepth at every call site of formatGetResponse
GetMaxDepth == 2

k_NameA == n_Name \o <<"_", "A">>

k_Age == <<"A", "g", "e">>

k_Zip == <<"Z", "i", "p">>

FmtKeyPool == {n_Name, n_NameText, k_NameA, k_Age, k_Zip}

\* The values a key of the pool may hold
ValuesFor(key) ==
    IF EndsWith(key, TextSuffix) THEN {Str("id-1"), Num(7)}
    ELSE IF key = n_Name THEN {Str("Bob"), Null}
    ELSE {Num(1), Str("v")}

\* Objects of at most MaxKeys keys of the pool, in every insertion order
FmtObjects ==
    UNION {{Obj([i \in DOMAIN l |-> [key |-> l[i], val |-> vs[i]]]) :
              vs \in {f \in [DOMAIN l -> UNION {ValuesFor(key) : key \in FmtKeyPool}] :
                         \A i \in DOMAIN l : f[i] \in ValuesFor(l[i])}} :
           l \in ListsUpTo(FmtKeyPool, MaxKeys)}

KlbDateTimeValue ==
    Obj(<<[key |-> k_unix, val |-> Num(1742172348)],
          [key |-> k_iso, val |-> Str("2025-03-17 00:45:48")],
          [key |-> k_tz, val |-> Str("UTC")]>>)

\* The KlbDateTime shape with a further key
KlbDateTimeFull ==
    Obj(<<[key |-> k_full, val |-> Str("Monday 17 March 2025")]>>
        \o KlbDateTimeValue.entries)

\* Primitives, arrays and nested values
FmtOtherValues ==
    {Null, Str("v"), Num(1), Bool(TRUE), Arr(<<>>), Obj(<<>>), KlbDateTimeValue,
     KlbDateTimeFull,
     Arr(<<Num(1), Str("v"), Null>>),
     Arr(<<Num(1), Num(2), Num(3), Num(4), Num(5)>>),
     Arr(<<Num(1), Num(2), Num(3), Num(4), Num(5), Num(6)>>),
     Arr(<<Num(1), Obj(<<>>), Str("v"), Null, Arr(<<Num(1)>>), Num(6), Num(7)>>),
     Arr(<<Obj(<<[key |-> k_Age, val |-> Num(1)]>>), Num(2)>>),
     Arr(<<Arr(<<Arr(<<Obj(<<>>)>>)>>)>>),
     Obj(<<[key |-> k_Zip, val |-> KlbDateTimeValue],
           [key |-> k_Age,
            val |-> Obj(<<[key |-> n_Name, val |-> Str("Bob")],
                          [key |-> n_NameText, val |-> Str("id-1")],
                          [key |-> k_Zip,
                           val |-> Obj(<<[key |-> k_Age, val |-> Num(1)]>>)]>>)]>>)}

\* The depths formatObject is called at: 0 by formatGetResponse, depth + 1 by
\* itself for the items of an array and the values of an object
FmtDepths == 0..GetMaxDepth

FmtInit ==
    /\ impl = "index"
    /\ pc = "ready"
    /\ input \in {[obj |-> v, depth |-> d] :
                     v \in FmtObjects \cup FmtOtherValues, d \in FmtDepths}
    /\ opts \in RenderOptions
    /\ sink = <<>>
    /\ console = <<>>
    /\ result = ""
    /\ req = NoRequest

\* formatObject(obj, depth, 2, { output, useColors, markdownFormat })
Format ==
    /\ pc = "ready"
    /\ pc' = "formatted"
    /\ sink' = FormatObject(input.obj, input.depth, GetMaxDepth, opts)
    /\ UNCHANGED <<impl, input, opts, console, result, req>>

FmtNext == Format

SpecFmt == FmtInit /\ [][FmtNext]_vars

(***************************************************************************)
(* formatGetResponse of src/index.js.                                      *)
(***************************************************************************)
GetLine(s, arg, o) ==
    [k |-> "get", s |-> s, arg |-> arg, ansi |-> Ansi(o), markdown |-> o.markdownFormat]

\* The number of items of a collection formatGetResponse shows
MaxCollectionItems == 10

k_data == <<"d", "a", "t", "a">>

\* total, count and page, when present
GetMetadata(jsonData, o) ==
    LET meta(key, s) == IF HasKey(jsonData, key)
                        THEN <<GetLine(s, <<ObjGet(jsonData, key)>>, o)>> ELSE <<>>
    IN  meta(<<"t", "o", "t", "a", "l">>, "Total Records")
        \o meta(<<"c", "o", "u", "n", "t">>, "Record Count")
        \o meta(<<"p", "a", "g", "e">>, "Page")

\* formatGetResponse(jsonData, options): reading jsonData.data throws when
\* jsonData is null
FormatGetResponse(jsonData, o) ==
    IF jsonData.t = "null" THEN [con |-> <<>>, out |-> <<>>, threw |-> TRUE]
    ELSE IF jsonData.t = "object" /\ HasKey(jsonData, k_data)
    THEN LET data == ObjGet(jsonData, k_data)
             shown == IF data.t = "array"
                      THEN Min(Len(data.items), MaxCollectionItems) ELSE 0
             item[i \in 0..shown] ==
                IF i = 0 THEN <<>>
                ELSE item[i - 1] \o <<GetLine("Item", <<i>>, o)>>
                     \o FormatObject(data.items[i], 0, GetMaxDepth, o)
                     \o <<GetLine("blank", <<>>, o)>>
         IN  [con |-> <<>>,
              out |-> (IF data.t = "array"
                       THEN <<GetLine("Collection Response", <<Len(data.items)>>, o)>>
                            \o (IF Len(data.items) > MaxCollectionItems
                                THEN <<GetLine("Showing first 10 items",
                                               <<Len(data.items)>>, o)>>
                                ELSE <<>>)
                            \o item[shown]
                       ELSE IF data.t = "object"
                       THEN <<GetLine("Object Response", <<>>, o)>>
                            \o FormatObject(data, 0, GetMaxDepth, o)
                       ELSE <<GetLine("Value Response", <<data>>, o)>>)
                      \o GetMetadata(jsonData, o),
              threw |-> FALSE]
    ELSE [con |-> <<>>,
          out |-> <<GetLine("Response", <<>>, o)>>
                  \o FormatObject(jsonData, 0, GetMaxDepth, o),
          threw |-> FALSE]

(***************************************************************************)
(* Spec: one describe or get operation, from the call to the settlement of *)
(* its promise.                                                            *)
(***************************************************************************)
MaxChunks == 2

\* The options of a call: colours and markdown in every combination, with a
\* collecting sink as output or with the default output, console.log
CallOptions ==
    {c @@ out : c \in [useColors : BOOLEAN, markdownFormat : BOOLEAN],
                out \in Opt("output", {"collect"})}

Calls ==
    {[op |-> "describe", rawOutput |-> r, typeScriptOutput |-> t] : r, t \in BOOLEAN}
    \cup {[op |-> "get", rawOutput |-> r] : r \in BOOLEAN}

Statuses == {200, 404}

ScenarioStruct ==
    <<[name |-> n_id,
       info |-> [type |-> "char", validator |-> "uuid", null |-> FALSE, key |-> "PRIMARY"]],
      [name |-> n_name, info |-> [type |-> "varchar"]]>>

CreateProcedure ==
    [name |-> <<"c", "r", "e", "a", "t", "e">>, static |-> TRUE,
     args |-> <<[name |-> <<"u", "s", "e", "r", "_", "i", "d">>, type |-> "int",
                 description |-> "owner"]>>]

\* Description documents a server answers with
DescriptionDocuments ==
    {NullDocument,
     [error |-> "no data"],
     [data |-> [Path |-> <<n_User>>, allowed_methods |-> <<"GET", "POST">>,
                access |-> "public",
                table |-> [Name |-> "User", Struct |-> ScenarioStruct]]],
     [data |-> [Path |-> <<n_User>>, table |-> [Name |-> "User"]]],
     [data |-> [Path |-> <<n_User>>, allowed_methods |-> <<"GET">>,
                procedure |-> CreateProcedure]],
     [data |-> [Path |-> <<n_User>>, procedure |-> CreateProcedure]],
     [data |-> [Path |-> <<n_User>>, allowed_methods |-> <<"POST">>,
                description |-> "Users",
                func |-> Methods(<<>>),
                prefix |-> <<[name |-> n_name, methods |-> <<"GET">>],
                             [name |-> n_Name]>>]],
     [data |-> [prefix |-> <<[methods |-> <<"GET">>]>>]]}

\* Resources a server answers a GET with
ResourceValues ==
    {Null, Num(1),
     Obj(<<[key |-> k_data, val |-> Str("v")]>>),
     Obj(<<[key |-> <<"e", "r", "r", "o", "r">>, val |-> Str("denied")]>>),
     Obj(<<[key |-> k_data,
            val |-> Obj(<<[key |-> k_Zip, val |-> Num(1)],
                          [key |-> n_Name, val |-> Str("Bob")],
                          [key |-> n_NameText, val |-> Str("id-1")]>>)]>>),
     Obj(<<[key |-> k_data,
            val |-> Arr(<<Obj(<<[key |-> k_Age, val |-> Num(1)]>>), Num(2)>>)],
           [key |-> <<"t", "o", "t", "a", "l">>, val |-> Num(2)]>>),
     Obj(<<[key |-> k_data,
            val |-> Arr([i \in 1..(MaxCollectionItems + 1) |-> Num(i)])]>>)}

\* U+FFFD, which the decoder writes for a byte sequence that is no character
ReplacementCharacter == 65533

IsLeadByte(b) == 194 <= b /\ b <= 223

IsContinuationByte(b) == 128 <= b /\ b <= 191

\* chunk.toString(): the UTF-8 decoding of the bytes of one chunk, as
\* `data += chunk` applies it to every chunk by itself.  The code points of
\* the characters of one and two bytes; a lead byte without its continuation
\* byte and a continuation byte without its lead byte decode to U+FFFD.
RECURSIVE Utf8Decode(_)
Utf8Decode(bytes) ==
    IF bytes = <<>> THEN <<>>
    ELSE IF bytes[1] < 128 THEN <<bytes[1]>> \o Utf8Decode(Tail(bytes))
    ELSE IF IsLeadByte(bytes[1]) /\ Len(bytes) >= 2 /\ IsContinuationByte(bytes[2])
    THEN <<(bytes[1] - 192) * 64 + (bytes[2] - 128)>> \o Utf8Decode(Tail(Tail(bytes)))
    ELSE <<ReplacementCharacter>> \o Utf8Decode(Tail(bytes))

\* The bytes of the texts ``, `<p>` and `<é>`
TextBodies == {<<>>, <<60, 112, 62>>, <<60, 195, 169, 62>>}

\* The response bodies: JSON texts, which JSON.parse turns into a value, and
\* texts that are not JSON, on which it throws.  The pretty-printer of
\* src/index.js reads tagged values, the other formatters read records.
\* The JSON texts are ASCII texts, which decode to themselves however they
\* are cut into chunks.
Bodies(im, op) ==
    {[kind |-> "text", bytes |-> t] : t \in TextBodies}
    \cup {[kind |-> "json", value |-> v] :
             v \in IF im = "index" /\ op = "get" THEN ResourceValues
                   ELSE DescriptionDocuments}

\* JSON.parse(data) throws unless data is a JSON text
ParseThrows(data) == data.kind # "json"

JsonParse(data) == data.value

\* One line of describeApi or getApiResource, written with printOutput
OpLine(s, arg, o) ==
    [k |-> "op", s |-> s, arg |-> arg, ansi |-> Ansi(o), markdown |-> o.markdownFormat]

\* Lines tagged with the channel the code writes them to
Tag(to, lines) == [i \in DOMAIN lines |-> [to |-> to, line |-> lines[i]]]

Route(r) == Tag("console", r.con) \o Tag("output", r.out)

Untag(tagged) == [i \in DOMAIN tagged |-> tagged[i].line]

\* What options.output receives: its default is console.log
ToSink(tagged) ==
    IF Has(opts, "output")
    THEN Untag(SelectSeq(tagged, LAMBDA l : l.to = "output")) ELSE <<>>

ToConsole(tagged) ==
    IF Has(opts, "output")
    THEN Untag(SelectSeq(tagged, LAMBDA l : l.to = "console")) ELSE Untag(tagged)

Deliver(tagged) ==
    /\ sink' = sink \o ToSink(tagged)
    /\ console' = console \o ToConsole(tagged)

\* A heading with a block of text: one line in markdown, two lines otherwise
OpBlock(s, arg, o) ==
    IF o.markdownFormat THEN <<OpLine(s, arg, o)>>
    ELSE <<OpLine(s, <<>>, o), OpLine("text", arg, o)>>

\* The raw-text fallback of the catch blocks
TextFallback(data, o) == Tag("output", OpBlock("Response (Text)", <<data>>, o))

\* The try block of the end handlers: JSON.parse, then the renderer
Render(im, call, data, o) ==
    IF ParseThrows(data) THEN TextFallback(data, o)
    ELSE LET jsonData == JsonParse(data)
             get == call.op = "get" /\ im = "index"
         IN  IF call.rawOutput
             THEN Tag("output", OpBlock(IF get /\ ~o.markdownFormat THEN "Response"
                                        ELSE "Raw Response", <<jsonData>>, o))
             ELSE IF get
             THEN LET r == FormatGetResponse(jsonData, o)
                  IN  Route(r) \o (IF r.threw THEN TextFallback(data, o) ELSE <<>>)
             ELSE IF IsNullDocument(jsonData) THEN TextFallback(data, o)
             ELSE IF call.op = "describe" /\ call.typeScriptOutput
             THEN Route(GenerateTypeScriptDefinitions(im, jsonData, o))
             ELSE LET r == FormatJsonResponse(im, jsonData, o)
                  IN  Route(r) \o (IF r.threw THEN TextFallback(data, o) ELSE <<>>)

\* The lines of describeApi before the request is sent
DescribeHeader(o) ==
    Tag("output", <<OpLine("Describing API endpoint", <<>>, o), OpLine("Host", <<>>, o)>>)

\* The lines of getApiResource before the request is sent
GetHeader(im, o) ==
    Tag("output", <<OpLine(IF im = "index" THEN "Retrieving API resource"
                           ELSE "GET request to API endpoint", <<>>, o),
                    OpLine("Host", <<>>, o)>>)

LifeInit ==
    /\ impl \in Impls
    /\ pc = "idle"
    /\ input \in Calls
    /\ opts \in CallOptions
    /\ sink = <<>>
    /\ console = <<>>
    /\ result = "pending"
    /\ req = NoRequest

\* describeApi(apiPath, options) up to req.end()
DescribeApi ==
    /\ pc = "idle" /\ input.op = "describe"
    /\ pc' = "requested"
    /\ Deliver(DescribeHeader(opts))
    /\ UNCHANGED <<impl, input, opts, result, req>>

\* getApiResource(apiPath, options) up to req.end()
GetApiResource ==
    /\ pc = "idle" /\ input.op = "get"
    /\ pc' = "requested"
    /\ Deliver(GetHeader(impl, opts))
    /\ UNCHANGED <<impl, input, opts, result, req>>

\* The response as the callback of https.request receives it: its body comes
\* in n chunks, none of them empty, and data is the empty string
Arrived(status, body, n) ==
    [status |-> status, body |-> body, got |-> 0,
     of |-> IF body.kind = "text" THEN Min(n, Len(body.bytes)) ELSE n,
     rest |-> IF body.kind = "text" THEN body.bytes ELSE <<>>,
     data |-> <<>>]

\* The lengths the next chunk may have: the body is cut anywhere
ChunkLengths(r) ==
    IF r.body.kind = "text"
    THEN {len \in 1..Len(r.rest) :
             /\ Len(r.rest) - len >= r.of - r.got - 1
             /\ r.got + 1 = r.of => len = Len(r.rest)}
    ELSE {0}

\* data += chunk
Received(r, len) ==
    IF r.body.kind = "text"
    THEN [r EXCEPT !.got = @ + 1,
                   !.data = @ \o Utf8Decode(SubSeq(r.rest, 1, len)),
                   !.rest = SubSeq(@, len + 1, Len(@))]
    ELSE [r EXCEPT !.got = @ + 1]

\* The callback of https.request: the response arrives, its body in at most
\* MaxChunks chunks
OnResponse ==
    /\ pc = "requested"
    /\ pc' = "receiving"
    /\ \E status \in Statuses, body \in Bodies(impl, input.op), n \in 1..MaxChunks :
          req' = Arrived(status, body, n)
    /\ UNCHANGED <<impl, input, opts, sink, console, result>>

\* res.on('data'): data += chunk, the chunk cut anywhere in the body
OnData ==
    /\ pc = "receiving" /\ req.got < req.of
    /\ \E len \in ChunkLengths(req) : req' = Received(req, len)
    /\ UNCHANGED <<impl, pc, input, opts, sink, console, result>>

\* data at the end of the response: the decoded chunks, one after the other
ReceivedData(r) ==
    IF r.body.kind = "text" THEN [kind |-> "text", text |-> r.data] ELSE r.body

\* The lines of the end handler of describeApi
DescribeEndLines(im, call, r, o) ==
    IF r.status # 200
    THEN Tag("output", <<OpLine("Status", <<r.status>>, o),
                         OpLine("Error: Unable to fetch API information", <<>>, o)>>)
    ELSE Render(im, call, ReceivedData(r), o)

\* res.on('end') of describeApi
DescribeOnEnd ==
    /\ pc = "receiving" /\ req.got = req.of /\ input.op = "describe"
    /\ pc' = "done"
    /\ result' = "resolved"
    /\ Deliver(DescribeEndLines(impl, input, req, opts))
    /\ UNCHANGED <<impl, input, opts, req>>

\* The error block of getApiResource of src/index.js, which parses the body
IndexGetError(data, o) ==
    <<OpLine("Error: Unable to fetch resource", <<>>, o)>>
    \o (IF ParseThrows(data) THEN <<OpLine("Response", <<data>>, o)>>
        ELSE LET errorData == JsonParse(data)
                 k_error == <<"e", "r", "r", "o", "r">>
             IN  IF errorData.t = "null" THEN <<OpLine("Response", <<data>>, o)>>
                 ELSE IF errorData.t = "object" /\ HasKey(errorData, k_error)
                 THEN <<OpLine("Error message", <<ObjGet(errorData, k_error)>>, o)>>
                 ELSE <<>>)

\* The lines of the end handler of getApiResource
GetEndLines(im, call, r, o) ==
    IF im = "index"
    THEN Tag("output", <<OpLine("Status", <<r.status>>, o)>>)
         \o (IF r.status # 200
             THEN Tag("output", IndexGetError(ReceivedData(r), o))
             ELSE Render(im, call, ReceivedData(r), o))
    ELSE IF r.status # 200
    THEN Tag("output", <<OpLine("Status", <<r.status>>, o),
                         OpLine("Error: Unable to fetch API resource", <<>>, o)>>)
    ELSE Render(im, call, ReceivedData(r), o)

\* res.on('end') of getApiResource
GetOnEnd ==
    /\ pc = "receiving" /\ req.got = req.of /\ input.op = "get"
    /\ pc' = "done"
    /\ result' = "resolved"
    /\ Deliver(GetEndLines(impl, input, req, opts))
    /\ UNCHANGED <<impl, input, opts, req>>

\* The line of the error handlers
ErrorLines(o) == Tag("output", <<OpLine("Error", <<"e.message">>, o)>>)

\* req.on('error'): the request fails before a response arrives
OnError ==
    /\ pc = "requested"
    /\ pc' = "done"
    /\ result' = "rejected"
    /\ Deliver(ErrorLines(opts))
    /\ UNCHANGED <<impl, input, opts, req>>

Next ==
    \/ DescribeApi
    \/ GetApiResource
    \/ OnResponse
    \/ OnData
    \/ DescribeOnEnd
    \/ GetOnEnd
    \/ OnError

Spec == LifeInit /\ [][Next]_vars

(***************************************************************************)
(* SpecName: the type name derived from a path, data.Path given by its     *)
(* segments.  getTypeName(data.Path.join('/')) in src/src/api.js, and      *)
(* `I${data.Path.join('')}` in src/index.js.                                *)
(***************************************************************************)
MaxSegments == 3

\* The segments User, Cms, user, 123, a1, my_item and User:create
SegmentPool ==
    {n_User, <<"C", "m", "s">>, <<"u", "s", "e", "r">>, <<"1", "2", "3">>, <<"a", "1">>,
     <<"m", "y", "_", "i", "t", "e", "m">>,
     n_User \o <<":">> \o <<"c", "r", "e", "a", "t", "e">>}

Paths == ListsUpTo(SegmentPool, MaxSegments) \ {<<>>}

NameInit ==
    /\ impl \in Impls
    /\ pc = "ready"
    /\ input \in Paths
    /\ opts = [useColors |-> TRUE, markdownFormat |-> FALSE]
    /\ sink = <<>>
    /\ console = <<>>
    /\ result = <<>>
    /\ req = NoRequest

\* The name of the resource interface of the document whose Path is input
DeriveTypeName ==
    /\ pc = "ready"
    /\ pc' = "named"
    /\ result' = IF impl = "api" THEN GetTypeName(PathParts([Path |-> input]))
                 ELSE IndexPathName([Path |-> input])
    /\ UNCHANGED <<impl, input, opts, sink, console, req>>

NameNext == DeriveTypeName

SpecName == NameInit /\ [][NameNext]_vars

(***************************************************************************)
(* The protocol server: two tool invocations in flight at the same time.   *)
(* Every handler of a tool is an async function with a buffer of its own;  *)
(* the callbacks of the two requests run in any order.  Here pc, input,    *)
(* sink, result and req are functions of the invocation, sink[i] being the *)
(* buffer of invocation i, and console is the one console of the process.  *)
(***************************************************************************)
Invocations == {1, 2}

\* The options every tool passes
McpOptions == [useColors |-> FALSE, markdownFormat |-> TRUE, output |-> "collect"]

\* The calls of the tools: describe, describe_raw, produce_ts and get of
\* src/src/mcp.js, which are describe (with its arguments raw and
\* typescript) and get of src/index.js; documentation, which is doc there
ToolCalls ==
    {[op |-> "describe", rawOutput |-> FALSE, typeScriptOutput |-> FALSE],
     [op |-> "describe", rawOutput |-> TRUE, typeScriptOutput |-> FALSE],
     [op |-> "describe", rawOutput |-> FALSE, typeScriptOutput |-> TRUE],
     [op |-> "get", rawOutput |-> FALSE],
     [op |-> "documentation"]}

\* What the servers answer a tool's request with
ToolBodies(im, op) ==
    IF op = "documentation"
    THEN {[kind |-> "text", bytes |-> t] : t \in TextBodies \ {<<>>}}
    ELSE {[kind |-> "text", bytes |-> <<60, 112, 62>>]}
         \cup {[kind |-> "json", value |-> v] :
                  v \in IF im = "index" /\ op = "get"
                        THEN {Num(1), Obj(<<[key |-> k_data, val |-> Str("v")]>>)}
                        ELSE {[error |-> "no data"],
                              [data |-> [Path |-> <<n_User>>,
                                         allowed_methods |-> <<"GET">>,
                                         procedure |-> CreateProcedure]]}}

\* The lines of fetchDocumentation before the request is sent: two in
\* src/index.js, none in src/src/api.js, which takes no options
DocHeader(im, o) ==
    IF im = "index"
    THEN Tag("output", <<OpLine("Fetching documentation", <<"fileName">>, o),
                         OpLine("Source", <<"fileName">>, o)>>)
    ELSE <<>>

\* The text of the file as the end handler holds it
DocText(r) == ReceivedData(r)

\* The lines of the end handler of fetchDocumentation
DocEndLines(im, r, o) ==
    IF im # "index" THEN <<>>
    ELSE IF r.status # 200
    THEN Tag("output", <<OpLine("Status", <<r.status>>, o),
                         OpLine("Error: Unable to fetch documentation", <<>>, o)>>)
    ELSE Tag("output", <<OpLine("Documentation", <<>>, o),
                         OpLine(IF o.markdownFormat THEN "data" ELSE "formatMarkdown(data)",
                                <<DocText(r)>>, o)>>)

\* The lines of the error handler of fetchDocumentation
DocErrorLines(im, o) == IF im = "index" THEN ErrorLines(o) ELSE <<>>

HeaderLines(im, call, o) ==
    IF call.op = "describe" THEN DescribeHeader(o)
    ELSE IF call.op = "get" THEN GetHeader(im, o)
    ELSE DocHeader(im, o)

EndLines(im, call, r, o) ==
    IF call.op = "describe" THEN DescribeEndLines(im, call, r, o)
    ELSE IF call.op = "get" THEN GetEndLines(im, call, r, o)
    ELSE DocEndLines(im, r, o)

\* The text a tool returns: buffer.join('\n') in src/index.js, and in
\* src/src/mcp.js a string in which a newline follows every line
ToolText(im, buffer) == [kind |-> "text", lines |-> buffer, newlineAtEnd |-> im = "api"]

\* The handler's own sink takes the lines written with printOutput, the
\* console of the process the lines written with console.log
DeliverTo(i, tagged) ==
    /\ sink' = [sink EXCEPT ![i] = @ \o ToSink(tagged)]
    /\ console' = console \o ToConsole(tagged)

McpInit ==
    /\ impl \in Impls
    /\ pc = [i \in Invocations |-> "idle"]
    /\ input \in [Invocations -> ToolCalls]
    /\ opts = McpOptions
    /\ sink = [i \in Invocations |-> <<>>]
    /\ console = <<>>
    /\ result = [i \in Invocations |-> "pending"]
    /\ req = [i \in Invocations |-> NoRequest]

\* tools/call: the handler runs up to its await, the request is sent
CallTool(i) ==
    /\ pc[i] = "idle"
    /\ pc' = [pc EXCEPT ![i] = "requested"]
    /\ DeliverTo(i, HeaderLines(impl, input[i], opts))
    /\ UNCHANGED <<impl, input, opts, result, req>>

\* The callback of https.request of invocation i
ToolResponse(i) ==
    /\ pc[i] = "requested"
    /\ pc' = [pc EXCEPT ![i] = "receiving"]
    /\ \E status \in Statuses, body \in ToolBodies(impl, input[i].op), n \in 1..MaxChunks :
          req' = [req EXCEPT ![i] = Arrived(status, body, n)]
    /\ UNCHANGED <<impl, input, opts, sink, console, result>>

\* res.on('data') of invocation i
ToolData(i) ==
    /\ pc[i] = "receiving" /\ req[i].got < req[i].of
    /\ \E len \in ChunkLengths(req[i]) : req' = [req EXCEPT ![i] = Received(req[i], len)]
    /\ UNCHANGED <<impl, pc, input, opts, sink, console, result>>

\* res.on('end') of invocation i: its lines are written and its promise
\* resolves
ToolEnd(i) ==
    /\ pc[i] = "receiving" /\ req[i].got = req[i].of
    /\ pc' = [pc EXCEPT ![i] = "resolved"]
    /\ DeliverTo(i, EndLines(impl, input[i], req[i], opts))
    /\ UNCHANGED <<impl, input, opts, result, req>>

\* req.on('error') of invocation i: its promise rejects
ToolError(i) ==
    /\ pc[i] = "requested"
    /\ pc' = [pc EXCEPT ![i] = "rejected"]
    /\ DeliverTo(i, IF input[i].op = "documentation" THEN DocErrorLines(impl, opts)
                    ELSE ErrorLines(opts))
    /\ UNCHANGED <<impl, input, opts, result, req>>

\* What a tool handler returns after its await: the text of its buffer, and
\* after a rejection the error text of the catch block in src/index.js; the
\* handlers of src/src/mcp.js have no catch block
ToolResult(im, stage, buffer) ==
    IF stage = "resolved" THEN ToolText(im, buffer)
    ELSE IF im = "index"
    THEN [kind |-> "error", lines |-> <<"## Error", "err.message">>]
    ELSE [kind |-> "thrown"]

\* The handler of invocation i goes on after its await and returns: the
\* text of its buffer; what fetchDocumentation resolved with is dropped.
\* After a rejection the handlers of src/index.js return an error text, the
\* handlers of src/src/mcp.js throw
ToolReturn(i) ==
    /\ pc[i] \in {"resolved", "rejected"}
    /\ pc' = [pc EXCEPT ![i] = "returned"]
    /\ result' = [result EXCEPT ![i] = ToolResult(impl, pc[i], sink[i])]
    /\ UNCHANGED <<impl, input, opts, sink, console, req>>

McpNext ==
    \E i \in Invocations :
        \/ CallTool(i)
        \/ ToolResponse(i)
        \/ ToolData(i)
        \/ ToolEnd(i)
        \/ ToolError(i)
        \/ ToolReturn(i)

SpecMcp == McpInit /\ [][McpNext]_vars

(***************************************************************************)
(* The stdio JSON-RPC loop of src/index.js.  Two data events arrive on     *)
(* stdin; the handler of each is an async function, which answers at once  *)
(* or awaits a tool.  Here input[k] is the text of data event k, sink[k]   *)
(* the buffer of its tool, req[k] the request of its tool, result[k] what  *)
(* its tool returned, and console is what the process wrote to stdout:     *)
(* console.log and process.stdout.write both write there.                  *)
(***************************************************************************)
Slots == {1, 2}

NumId(n) == [num |-> n]

StrId(t) == [str |-> t]

NullId == [null |-> TRUE]

\* The request of test-mcp-describe.js
DescribeRequest ==
    [jsonrpc |-> "2.0", id |-> StrId("test-describe"), method |-> "tools/call",
     params |-> [name |-> "describe", arguments |-> [apiPath |-> "User"]]]

\* tools/call requests for the tools describe, get and doc
ToolRequests ==
    {DescribeRequest,
     [DescribeRequest EXCEPT !.id = NumId(1),
                             !.params.arguments = [apiPath |-> "User", typescript |-> TRUE]],
     [DescribeRequest EXCEPT !.id = NumId(2), !.params.name = "get"],
     [DescribeRequest EXCEPT !.id = NumId(3), !.params.name = "doc",
                             !.params.arguments = [fileName |-> "auth.md"]]}

\* The texts of a data event: texts JSON.parse throws on, and JSON texts,
\* given by the value JSON.parse returns.  Requests as they should be, and
\* requests with one thing different: the id 0, no id, no params, no
\* arguments, another method, a tool that does not exist, another version,
\* no method
RpcMessages ==
    {[json |-> FALSE], [json |-> TRUE, value |-> NullDocument]}
    \cup {[json |-> TRUE, value |-> v] :
             v \in ToolRequests
                   \cup {[DescribeRequest EXCEPT !.id = NumId(0)],
                         [DescribeRequest EXCEPT !.method = "tools/list"],
                         [DescribeRequest EXCEPT !.params.name = "nosuch"],
                         [DescribeRequest EXCEPT !.jsonrpc = "1.0"],
                         [jsonrpc |-> "2.0", method |-> "tools/call",
                          params |-> DescribeRequest.params],
                         [jsonrpc |-> "2.0", id |-> NumId(4), method |-> "tools/call"],
                         [jsonrpc |-> "2.0", id |-> NumId(5), method |-> "tools/call",
                          params |-> [name |-> "describe"]],
                         [jsonrpc |-> "2.0", id |-> NumId(6), params |-> DescribeRequest.params]}}

\* !request.id
IdFalsy(request) == ~Has(request, "id") \/ request.id \in {NumId(0), StrId("")}

\* request.id || null
IdOrNull(request) == IF IdFalsy(request) THEN NullId ELSE request.id

\* The names of the tools object
ToolNames == {"describe", "get", "listObjects", "doc"}

\* How the handler of a data event ends before any tool runs, "call" when it
\* calls a tool: JSON.parse throws, or reading a property of null or of
\* undefined throws, and the outer catch answers
Classify(msg) ==
    IF ~msg.json \/ IsNullDocument(msg.value) THEN "parse error"
    ELSE IF ~Has(msg.value, "jsonrpc") \/ msg.value.jsonrpc # "2.0"
            \/ IdFalsy(msg.value) \/ ~Has(msg.value, "method")
    THEN "invalid request"
    ELSE IF msg.value.method # "tools/call" THEN "method not found"
    ELSE IF ~Has(msg.value, "params") THEN "parse error"
    ELSE IF msg.value.params.name \notin ToolNames THEN "method not found"
    ELSE "call"

\* A line of JSON written with process.stdout.write: an error response
ErrorResponse(k, id, code) == [k |-> "rpc", for |-> k, id |-> id, error |-> code]

\* A line of JSON written with process.stdout.write: the result of a tool
ResultResponse(k, id, r) == [k |-> "rpc", for |-> k, id |-> id, result |-> r]

\* What the handler writes when it ends before any tool runs
Refusal(k, msg) ==
    LET cause == Classify(msg)
    IN  IF cause = "parse error" THEN ErrorResponse(k, NullId, -32700)
        ELSE IF cause = "invalid request"
        THEN ErrorResponse(k, IdOrNull(msg.value), -32600)
        ELSE ErrorResponse(k, msg.value.id, -32601)

\* The tool throws before its await when it reads a property of undefined
ToolThrowsAtOnce(request) == ~Has(request.params, "arguments")

\* The call the tool makes: args.raw || false, args.typescript || false
ToolCall(request) ==
    LET args == request.params.arguments
    IN  IF request.params.name = "describe"
        THEN [op |-> "describe", rawOutput |-> Has(args, "raw"),
              typeScriptOutput |-> Has(args, "typescript")]
        ELSE IF request.params.name = "get"
        THEN [op |-> "get", rawOutput |-> Has(args, "raw")]
        ELSE [op |-> "documentation"]

\* Lines written with console.log, as stdout holds them
Logged(lines) == [i \in DOMAIN lines |-> [k |-> "log", line |-> lines[i]]]

\* The two lines startMcpServer writes with console.log before it listens
Banner == Logged(<<"Starting MCP server...", "MCP server started on stdio. Waiting for commands...">>)

\* The buffer of the tool of data event k takes the lines written with
\* printOutput, stdout the lines written with console.log
CollectOrLog(k, tagged) ==
    /\ sink' = [sink EXCEPT ![k] = @ \o ToSink(tagged)]
    /\ console' = console \o Logged(ToConsole(tagged))

RpcInit ==
    /\ impl = "index"
    /\ pc = [k \in Slots |-> "unread"]
    /\ input \in [Slots -> RpcMessages]
    /\ opts = McpOptions
    /\ sink = [k \in Slots |-> <<>>]
    /\ console = Banner
    /\ result = [k \in Slots |-> "pending"]
    /\ req = [k \in Slots |-> NoRequest]

\* process.stdin.on('data') for a text the handler answers without a tool
RpcRefuse(k) ==
    /\ pc[k] = "unread" /\ Classify(input[k]) # "call"
    /\ pc' = [pc EXCEPT ![k] = "answered"]
    /\ console' = console \o <<Refusal(k, input[k])>>
    /\ UNCHANGED <<impl, input, opts, sink, result, req>>

\* process.stdin.on('data') for a call of a tool, up to the await of the
\* tool: the request is sent, or the tool has thrown and caught
RpcCall(k) ==
    /\ pc[k] = "unread" /\ Classify(input[k]) = "call"
    /\ IF ToolThrowsAtOnce(input[k].value)
       THEN /\ pc' = [pc EXCEPT ![k] = "rejected"]
            /\ UNCHANGED <<sink, console>>
       ELSE /\ pc' = [pc EXCEPT ![k] = "requested"]
            /\ CollectOrLog(k, HeaderLines(impl, ToolCall(input[k].value), opts))
    /\ UNCHANGED <<impl, input, opts, result, req>>

\* The callback of https.request of the tool of data event k
RpcResponse(k) ==
    /\ pc[k] = "requested"
    /\ pc' = [pc EXCEPT ![k] = "receiving"]
    /\ \E status \in Statuses, body \in ToolBodies(impl, ToolCall(input[k].value).op),
          n \in 1..MaxChunks :
          req' = [req EXCEPT ![k] = Arrived(status, body, n)]
    /\ UNCHANGED <<impl, input, opts, sink, console, result>>

\* res.on('data') of the tool of data event k
RpcData(k) ==
    /\ pc[k] = "receiving" /\ req[k].got < req[k].of
    /\ \E len \in ChunkLengths(req[k]) : req' = [req EXCEPT ![k] = Received(req[k], len)]
    /\ UNCHANGED <<impl, pc, input, opts, sink, console, result>>

\* res.on('end') of the tool of data event k
RpcEnd(k) ==
    /\ pc[k] = "receiving" /\ req[k].got = req[k].of
    /\ pc' = [pc EXCEPT ![k] = "resolved"]
    /\ CollectOrLog(k, EndLines(impl, ToolCall(input[k].value), req[k], opts))
    /\ UNCHANGED <<impl, input, opts, result, req>>

\* req.on('error') of the tool of data event k
RpcError(k) ==
    /\ pc[k] = "requested"
    /\ pc' = [pc EXCEPT ![k] = "rejected"]
    /\ CollectOrLog(k, IF ToolCall(input[k].value).op = "documentation"
                       THEN DocErrorLines(impl, opts) ELSE ErrorLines(opts))
    /\ UNCHANGED <<impl, input, opts, result, req>>

\* The tool returns and the handler of the data event goes on after its
\* await: it writes the response
RpcAnswer(k) ==
    /\ pc[k] \in {"resolved", "rejected"}
    /\ pc' = [pc EXCEPT ![k] = "answered"]
    /\ result' = [result EXCEPT ![k] = ToolResult(impl, pc[k], sink[k])]
    /\ console' = console \o <<ResultResponse(k, input[k].value.id,
                                              ToolResult(impl, pc[k], sink[k]))>>
    /\ UNCHANGED <<impl, input, opts, sink, req>>

\* The steps of the handler of data event k and of the callbacks of its tool
RpcStep(k) ==
    \/ RpcRefuse(k)
    \/ RpcCall(k)
    \/ RpcResponse(k)
    \/ RpcData(k)
    \/ RpcEnd(k)
    \/ RpcError(k)
    \/ RpcAnswer(k)

RpcNext == \E k \in Slots : RpcStep(k)

SpecRpc == RpcInit /\ [][RpcNext]_vars

\* The event loop runs every callback that is ready, and every request ends
\* with a response or with an error
SpecRpcLive == SpecRpc /\ \A k \in Slots : WF_vars(RpcStep(k))

(***************************************************************************)
(* Properties of the Type Mapper (SpecMap).                                *)
(***************************************************************************)
SemanticValidators == {"uuid", "email", "url", "phone", "password", "login", "language"}

HasSemanticValidator(info) ==
    Has(info, "validator") /\ info.validator \in SemanticValidators

\* C2: a field info whose validator is uuid, email, url, phone, password,
\* login or language maps to `string`, whatever its type is, an absent type
\* included.
C2_ValidatorMapsToString ==
    (pc = "mapped" /\ HasSemanticValidator(input.info)) => result = "string"

\* An ENUM field (type compared case-insensitively) with a list of values and
\* no recognized validator
IsEnumField(info) ==
    /\ Has(info, "type") /\ info.type \in {"ENUM", "Enum", "enum"}
    /\ Has(info, "values")
    /\ ~HasSemanticValidator(info)

\* The union of the quoted values, with a trailing `| null` unless null is
\* explicitly false
EnumUnion(info) ==
    "'" \o info.values[1] \o "' | '" \o info.values[2] \o "'"
    \o (IF Has(info, "null") /\ info.null = FALSE THEN "" ELSE " | null")

PropLines(iface) ==
    SelectSeq(console \o sink, LAMBDA l : l.k = "prop" /\ l.of = iface)

\* `<TypeName>` of the resource interface
ResourceInterface(im, data) ==
    IF im = "index" THEN <<"I">> \o n_User ELSE n_User

Emitted == console \o sink

IsTemporal(o) == Has(o, "type") /\ o.type \in {"datetime", "DATETIME", "timestamp"}

\* How many table fields, procedure arguments and method arguments of the
\* document have a datetime/timestamp type
TemporalCount(data) ==
    (IF Has(data, "table") /\ Has(data.table, "Struct")
     THEN Cardinality({i \in DOMAIN data.table.Struct :
                          /\ data.table.Struct[i].name # PrimaryKey
                          /\ IsTemporal(data.table.Struct[i].info)})
     ELSE 0)
    + (IF Has(data, "procedure")
       THEN Cardinality({i \in DOMAIN data.procedure.args :
                            IsTemporal(data.procedure.args[i])})
       ELSE 0)
    + (IF Has(data, "func")
       THEN Cardinality({<<f, i>> \in (DOMAIN data.func) \X (1..MaxArgs) :
                            /\ i \in DOMAIN data.func[f].args
                            /\ IsTemporal(data.func[f].args[i])})
       ELSE 0)

DeclarationCount == Cardinality({i \in DOMAIN Emitted : Emitted[i].k = "declaration"})

\* C4: a rendering pass over a document with at least one datetime/timestamp
\* field or argument emits the KlbDateTime declaration exactly once, however
\* many fields and arguments qualify.
C4_KlbDateTimeOnce ==
    (pc = "generated" /\ Has(input, "data") /\ TemporalCount(input.data) >= 1)
        => DeclarationCount = 1

C4_Witness ==
    /\ pc = "generated" /\ Has(input, "data")
    /\ TemporalCount(input.data) >= 4
    /\ DeclarationCount = 1

\* The columns of the primary key: the _primary list, else the fields marked
\* key PRIMARY
PrimaryColumns(struct) ==
    IF StructHas(struct, PrimaryKey) THEN StructGet(struct, PrimaryKey).list
    ELSE SelectSeq(Fields(struct),
                   LAMBDA f : Has(StructGet(struct, f), "key")
                              /\ StructGet(struct, f).key = "PRIMARY")

\* A table-shaped document: a table with a Struct and no procedure
IsTableDoc(doc) ==
    /\ Has(doc, "data") /\ Has(doc.data, "table") /\ Has(doc.data.table, "Struct")
    /\ ~Has(doc.data, "procedure")

\* C5: for a table-shaped document with a single-column primary key the
\* emitter emits the alias `<TypeName>ID` equal to that column's mapped type;
\* the scenario document (id char/uuid/null false/key PRIMARY, name varchar,
\* no _primary) gets `export type IUserID = string;`.
C5_SingleKeyAlias ==
    (/\ pc = "generated" /\ impl = "index" /\ IsTableDoc(input)
     /\ Len(PrimaryColumns(input.data.table.Struct)) = 1
     /\ StructHas(input.data.table.Struct, PrimaryColumns(input.data.table.Struct)[1]))
        => \E i \in DOMAIN Emitted :
              /\ Emitted[i].k = "alias"
              /\ Emitted[i].name = ResourceInterface(impl, input.data) \o <<"I", "D">>
              /\ Emitted[i].type =
                    MapToTsType(StructGet(input.data.table.Struct,
                                          PrimaryColumns(input.data.table.Struct)[1]))

\* The arguments of the procedure and of the methods of a document
ArgsOf(data) ==
    (IF Has(data, "procedure") THEN Range(data.procedure.args) ELSE {})
    \cup (IF Has(data, "func")
          THEN UNION {Range(data.func[f].args) : f \in DOMAIN data.func} ELSE {})

IsParamsInterface(name) ==
    \/ EndsWith(name, RequestSuffix)
    \/ EndsWith(name, ParamsSuffix)

\* The Type Mapper's mapping of an explicit argument type
MappedArgType(im, arg) ==
    IF im = "index" THEN MapToTsType(arg)
    ELSE ConvertToTypeScriptType(arg.type, <<>>, EmptyObject)

\* C6: in every request-parameter interface an argument with an explicit
\* type is typed by the Type Mapper's mapping of that type, whatever its name.
C6_ExplicitTypeWins ==
    (pc = "generated" /\ Has(input, "data")) =>
        \A i \in DOMAIN Emitted :
            (Emitted[i].k = "prop" /\ IsParamsInterface(Emitted[i].of)) =>
                \A arg \in ArgsOf(input.data) :
                    (arg.name = Emitted[i].name /\ Has(arg, "type")) =>
                        Emitted[i].type = MappedArgType(impl, arg)

\* The resource interface was emitted
ResourceEmitted(doc) ==
    /\ Has(doc, "data") /\ Has(doc.data, "table") /\ Has(doc.data.table, "Struct")
    /\ \E i \in DOMAIN Emitted :
          /\ Emitted[i].k = "interface"
          /\ Emitted[i].name = ResourceInterface(impl, doc.data)

\* C7: in the emitted resource interface every non-metadata field of Struct
\* is one property, marked optional exactly when its null is not false.
C7_OnePropertyPerField ==
    (pc = "generated" /\ ResourceEmitted(input)) =>
        LET struct == input.data.table.Struct
            props == PropLines(ResourceInterface(impl, input.data))
        IN  \A s \in DOMAIN struct :
               ~StartsWith(struct[s].name, Underscore) =>
                  /\ Cardinality({i \in DOMAIN props : props[i].name = struct[s].name}) = 1
                  /\ \A i \in DOMAIN props :
                        props[i].name = struct[s].name =>
                           (props[i].optional
                              <=> ~(Has(struct[s].info, "null")
                                    /\ struct[s].info.null = FALSE))

\* C8: for every field whose name ends in _Text__ the emitted resource
\* interface holds the ID property and a synthetic optional string property
\* named after the companion field, whether or not Struct has the companion.
C8_CompanionProperty ==
    (pc = "generated" /\ ResourceEmitted(input)) =>
        LET struct == input.data.table.Struct
            props == PropLines(ResourceInterface(impl, input.data))
        IN  \A s \in DOMAIN struct :
               EndsWith(struct[s].name, TextSuffix) =>
                  /\ \E i \in DOMAIN props : props[i].name = struct[s].name
                  /\ \E i \in DOMAIN props :
                        /\ props[i].name = SliceEnd(struct[s].name, TextSuffixLen)
                        /\ props[i].synthetic
                        /\ props[i].optional
                        /\ props[i].type = "string"

\* C15: for every parsed JSON document that lacks data, the Description
\* Formatter and the TypeScript Emitter each emit exactly one "No API data
\* found" line, emit nothing else and return without raising.
C15_NoDataOneLine ==
    (pc # "ready" /\ ~Has(input, "data")) =>
        /\ pc \in {"described", "generated"}
        /\ Emitted = <<NoDataLine>>

(***************************************************************************)
(* Properties of the Description Formatter (SpecDoc).                      *)
(***************************************************************************)
\* The lines of the table, method and sub-resource sections of both
\* implementations
OtherSectionLines ==
    {"Resource Details", "Fields", "All Fields", "Table Structure", "field",
     "Primary Key", "Available Methods", "method",
     "Sub-endpoints", "group", "Available Subresources", "subresource"}

\* C14: when procedure is present the Description Formatter ends after the
\* procedure section: no line of a table, method or sub-resource section is
\* emitted, even when table, func or prefix are present too.
C14_ProcedureEndsFormatting ==
    (pc # "ready" /\ Has(input.data, "procedure")) =>
        \A i \in DOMAIN Emitted : Emitted[i].s \notin OtherSectionLines

\* data is present and an expected nested structure is missing: a procedure
\* with Path and no allowed_methods, a table without Struct, a _primary that
\* is no list, a prefix entry without name
LacksNestedStructure(data) ==
    \/ Has(data, "procedure") /\ Has(data, "Path") /\ ~Has(data, "allowed_methods")
    \/ Has(data, "table") /\ ~Has(data.table, "Struct")
    \/ /\ Has(data, "table") /\ Has(data.table, "Struct")
       /\ StructHas(data.table.Struct, PrimaryKey)
       /\ ~Has(StructGet(data.table.Struct, PrimaryKey), "list")
    \/ /\ Has(data, "prefix")
       /\ \E i \in DOMAIN data.prefix : ~Has(data.prefix[i], "name")

\* C18: formatting a description document whose data lacks an expected
\* nested structure never raises: the formatter returns normally.
C18_MissingStructureNeverRaises ==
    (pc # "ready" /\ LacksNestedStructure(input.data)) => pc = "described"

(***************************************************************************)
(* Properties of the pretty-printer (SpecFmt).                             *)
(***************************************************************************)
\* The lines that begin an entry of the top-level object
IsEntryStart(l) == l.k \in {"entry", "key"} /\ l.indent = 1

EntryStarts == {i \in DOMAIN sink : IsEntryStart(sink[i])}

\* The `,` separator lines of the top-level object between lines i and j
CommasBetween(i, j) ==
    {c \in DOMAIN sink : i < c /\ c < j /\ sink[c].k = "punct"
                         /\ sink[c].c = "," /\ sink[c].indent = 1}

IsPairedLine(i, j) ==
    /\ sink[i].k = "entry" /\ sink[i].note = "Translatable ID"
    /\ sink[j].k = "entry" /\ sink[j].note = "Translated text"

\* An expanded top-level object other than the KlbDateTime shape
ExpandedObject ==
    /\ pc = "formatted" /\ input.obj.t = "object" /\ input.depth = 0
    /\ Len(input.obj.entries) > 0
    /\ ~IsKlbDateTime(input.obj)

\* C9: in an expanded object no `,` line is printed between a translatable ID
\* line and its companion text line, and one `,` line is printed between
\* every other pair of consecutive entries, the companion text line and the
\* entry after it included.
C9_CommaBetweenEntries ==
    ExpandedObject =>
        \A i, j \in EntryStarts :
            (i < j /\ ~\E m \in EntryStarts : i < m /\ m < j) =>
                Cardinality(CommasBetween(i, j)) = (IF IsPairedLine(i, j) THEN 0 ELSE 1)

\* The keys of the entries of the top-level object, in rendering order
RenderedKeys ==
    LET starts == SelectSeq([i \in DOMAIN sink |-> i],
                            LAMBDA i : IsEntryStart(sink[i]))
    IN  [n \in DOMAIN starts |-> sink[starts[n]].key]

IsAlphabetical(keys) ==
    \A i, j \in DOMAIN keys : i < j => LocaleCompare(keys[i], keys[j]) <= 0

\* The bases whose `<base>` and string-valued `<base>_Text__` the object holds
PairedBases(obj) ==
    {b \in Range(Keys(obj)) :
        /\ HasKey(obj, b \o TextSuffix)
        /\ ObjGet(obj, b \o TextSuffix).t = "string"}

\* C10: when an object holds a string-valued `<base>_Text__` and `<base>`,
\* `<base>` is rendered exactly once, right after the `<base>_Text__` line and
\* annotated as translated text, and all remaining keys are rendered in
\* alphabetical order.
C10_CompanionInlineRestAlphabetical ==
    (ExpandedObject /\ PairedBases(input.obj) # {}) =>
        /\ \A b \in PairedBases(input.obj) :
              /\ Cardinality({i \in EntryStarts : sink[i].key = b}) = 1
              /\ \A i \in EntryStarts :
                    sink[i].key = b =>
                       /\ sink[i].note = "Translated text"
                       /\ i > 1
                       /\ sink[i - 1].k = "entry"
                       /\ sink[i - 1].key = b \o TextSuffix
        /\ IsAlphabetical(SelectSeq(RenderedKeys,
                                    LAMBDA key : key \notin PairedBases(input.obj)))

\* A non-empty array formatted below the depth limit
ArrayBelowLimit ==
    /\ pc = "formatted" /\ input.obj.t = "array"
    /\ Len(input.obj.items) > 0
    /\ input.depth < GetMaxDepth

\* The marker for count remaining items: "1 more item", "N more items"
MoreMarker(count) ==
    <<"... ", count, IF count = 1 THEN " more item" ELSE " more items">>

\* The array is rendered vertically: `[`, its first 5 items, one marker line
\* with the text marker, `]`
ShownVertically(items, marker) ==
    /\ Len(sink) >= 4
    /\ sink[1] = Punct(input.depth, "[")
    /\ SubSeq(sink, 2, Len(sink) - 2)
          = FormatItems(items, 1, MaxDisplayItems, input.depth, GetMaxDepth, opts)
    /\ sink[Len(sink) - 1].k = "more"
    /\ sink[Len(sink) - 1].text = marker
    /\ Cardinality({i \in DOMAIN sink : sink[i].k = "more"}) = 1
    /\ sink[Len(sink)] = Punct(input.depth, "]")

\* C11: below the depth limit an array of at most 5 elements, all primitive,
\* renders inline on one line; an array of 6 or more elements renders
\* vertically with its first 5 elements and one marker line announcing
\* length - 5 remaining items, which for 6 elements reads "1 more item".
C11_ArrayInlineOrFirstFive ==
    ArrayBelowLimit =>
        /\ (/\ Len(input.obj.items) <= MaxDisplayItems
            /\ \A i \in DOMAIN input.obj.items : IsPrimitive(input.obj.items[i]))
              => (/\ Len(sink) = 1
                  /\ sink[1].k = "inline"
                  /\ sink[1].items = input.obj.items)
        /\ Len(input.obj.items) > MaxDisplayItems
              => ShownVertically(input.obj.items,
                                 MoreMarker(Len(input.obj.items) - MaxDisplayItems))

\* A non-empty array or object
IsNonEmptyContainer(v) ==
    \/ v.t = "array" /\ Len(v.items) > 0
    \/ v.t = "object" /\ Len(v.entries) > 0

Size(v) == IF v.t = "array" THEN Len(v.items) ELSE Len(v.entries)

\* C12: a non-empty array or object reached at depth >= maxDepth is rendered
\* as exactly one summary line giving its element or property count, and no
\* line is ever rendered deeper than maxDepth, whatever the shape of the value.
C12_SummaryAtDepthLimit ==
    pc = "formatted" =>
        /\ (input.depth >= GetMaxDepth /\ IsNonEmptyContainer(input.obj))
              => (/\ Len(sink) = 1
                  /\ sink[1].k = "summary"
                  /\ sink[1].of = input.obj.t
                  /\ sink[1].count = Size(input.obj)
                  /\ sink[1].indent = input.depth)
        /\ \A i \in DOMAIN sink : sink[i].indent <= Max(input.depth, GetMaxDepth)

C12_Witness ==
    /\ pc = "formatted" /\ input.depth = GetMaxDepth
    /\ input.obj.t = "object" /\ Len(input.obj.entries) = 2
    /\ \E i \in DOMAIN input.obj.entries : IsNonEmptyContainer(input.obj.entries[i].val)
    /\ Len(sink) = 1 /\ sink[1].k = "summary" /\ sink[1].count = 2

\* An object in which unix, iso and tz are all defined
HasTimestampShape(v) ==
    /\ v.t = "object"
    /\ {k_unix, k_iso, k_tz} \subseteq {v.entries[i].key : i \in DOMAIN v.entries}

\* C13 as stated: an object in which unix, iso and tz are all defined is
\* rendered as a single output line that shows only its iso field.
C13_KlbDateTimeOneLine ==
    (pc = "formatted" /\ HasTimestampShape(input.obj)) =>
        /\ Len(sink) = 1
        /\ sink[1].k = "entry" /\ sink[1].key = k_iso

\* C13 amended: below the depth limit an object in which unix, iso and tz are
\* all defined is rendered as three lines, `{`, one line showing its iso
\* field and `}`, and none of its other keys is rendered; at depth >= maxDepth
\* it is rendered as the one-line property count like every other object.
C13_KlbDateTimeIsoBetweenBraces ==
    (pc = "formatted" /\ HasTimestampShape(input.obj)) =>
        IF input.depth >= GetMaxDepth
        THEN Len(sink) = 1 /\ sink[1].k = "summary"
        ELSE /\ Len(sink) = 3
             /\ sink[1] = Punct(input.depth, "{")
             /\ sink[2].k = "entry" /\ sink[2].key = k_iso
             /\ sink[2].value = ObjGet(input.obj, k_iso)
             /\ sink[2].indent = input.depth + 1
             /\ sink[3] = Punct(input.depth, "}")

C13_Witness ==
    /\ pc = "formatted" /\ input.depth = 0
    /\ HasTimestampShape(input.obj) /\ Len(input.obj.entries) = 4
    /\ Len(sink) = 3 /\ sink[2].key = k_iso

(***************************************************************************)
(* Properties of the operations (Spec).                                    *)
(***************************************************************************)
\* C1: every line of a render operation is delivered through the output sink
\* of its options and never written to the console directly: when the caller
\* passes a collecting sink nothing reaches the console, for every
\* combination of useColors and markdownFormat.
C1_OnlyThroughSink ==
    Has(opts, "output") => console = <<>>

\* The lines of the operation after the two lines of its request header
AfterHeader == SubSeq(sink \o console, 3, Len(sink \o console))

ErrorBlockLines ==
    {"Error: Unable to fetch API information", "Error: Unable to fetch resource",
     "Error: Unable to fetch API resource"}

\* C16: for every response whose status is not 200 the describe and get
\* operations emit only the error block, a status line and an error line, at
\* most two lines after the request header, and nothing read from the body.
C16_ErrorBlockOnly ==
    (pc = "done" /\ result = "resolved" /\ req.status # 200) =>
        /\ Len(AfterHeader) <= 2
        /\ \A i \in DOMAIN AfterHeader : AfterHeader[i].s \in {"Status"} \cup ErrorBlockLines

\* C17: for a status-200 response whose body is no JSON text the describe and
\* get operations emit the "Response (Text)" heading followed by the raw
\* body verbatim, the text of the bytes of the body, as their last lines, and
\* the promise resolves.
C17_TextFallbackResolves ==
    (pc = "done" /\ result # "rejected" /\ req.status = 200 /\ ParseThrows(req.body)) =>
        LET block == OpBlock("Response (Text)",
                             <<[kind |-> "text", text |-> Utf8Decode(req.body.bytes)]>>,
                             opts)
            lines == sink \o console
        IN  /\ result = "resolved"
            /\ Len(lines) >= Len(block)
            /\ SubSeq(lines, Len(lines) - Len(block) + 1, Len(lines)) = block
            /\ \A i \in 1..(Len(lines) - Len(block)) : lines[i].s # "Response (Text)"


\* The operation was answered with status 200 and a body that is a JSON text
JsonAnswered ==
    /\ pc = "done" /\ result # "rejected"
    /\ req.status = 200 /\ ~ParseThrows(req.body)

\* C28: the "Response (Text)" fallback is emitted only when the body is not
\* valid JSON: a status-200 response whose body parses as JSON is never
\* reported as raw text, whatever the parsed document, and so no formatted
\* section is followed by the fallback
C28_FallbackOnlyForNonJson ==
    JsonAnswered =>
        \A i \in DOMAIN (sink \o console) :
            Has((sink \o console)[i], "s") => (sink \o console)[i].s # "Response (Text)"

(***************************************************************************)
(* Properties of the Protocol Server (SpecMcp).                            *)
(***************************************************************************)
\* All the lines the operation of invocation i writes, in their order
OperationLines(i) ==
    Untag(HeaderLines(impl, input[i], opts) \o EndLines(impl, input[i], req[i], opts))

\* C19: with two invocations of describe, describe_raw, produce_ts or get in
\* flight and their callbacks in any order, the text an invocation returns
\* holds exactly the lines of its own operation, in their order
C19_ReturnsOwnLines ==
    \A i \in Invocations :
        (pc[i] = "returned" /\ result[i].kind = "text" /\ input[i].op # "documentation")
            => result[i].lines = OperationLines(i)

\* The content of the file invocation i fetched
FileContent(i) == [kind |-> "text", text |-> Utf8Decode(req[i].body.bytes)]

\* C20: the documentation tool returns the content of the file whenever the
\* file is fetched with status 200
C20_DocumentationReturnsContent ==
    \A i \in Invocations :
        (pc[i] = "returned" /\ input[i].op = "documentation"
           /\ result[i].kind = "text" /\ req[i].status = 200)
            => \E n \in DOMAIN result[i].lines :
                   /\ result[i].lines[n].s = "data"
                   /\ result[i].lines[n].arg = <<FileContent(i)>>

\* The request of invocation i failed before a response arrived
ConnectionFailed(i) ==
    /\ input[i].op # "documentation"
    /\ req[i] = NoRequest
    /\ pc[i] \in {"rejected", "returned"}

\* C21: on a connection error during describe or get the failure is written
\* to the sink as a short error message and goes no further: the promise of
\* the operation is not rejected and the tool handler sees no thrown error
C21_ConnectionErrorStaysInside ==
    \A i \in Invocations :
        ConnectionFailed(i) =>
            /\ sink[i] = Untag(HeaderLines(impl, input[i], opts) \o ErrorLines(opts))
            /\ pc[i] # "rejected"
            /\ result[i].kind = "text"

(***************************************************************************)
(* Properties of the JSON-RPC loop (SpecRpc).                              *)
(***************************************************************************)
\* The lines stdout holds that answer data event k
ResponsesTo(k) == SelectSeq(console, LAMBDA l : l.k = "rpc" /\ l.for = k)

\* C22: a client that sends one tools/call request for the describe tool and
\* accumulates everything the server writes to stdout holds one JSON
\* response to its request
C22_StdoutIsOneResponse ==
    \A k \in Slots :
        (/\ input[k] = [json |-> TRUE, value |-> DescribeRequest]
         /\ pc[k] = "answered"
         /\ \A other \in Slots \ {k} : pc[other] = "unread")
            => /\ Len(console) = 1
               /\ console[1].k = "rpc"
               /\ console[1].id = DescribeRequest.id

\* The text of data event k is a JSON object with jsonrpc "2.0", an id and a method
HasIdAndMethod(msg) ==
    /\ msg.json /\ ~IsNullDocument(msg.value)
    /\ Has(msg.value, "jsonrpc") /\ msg.value.jsonrpc = "2.0"
    /\ Has(msg.value, "id") /\ Has(msg.value, "method")

\* Data event k has one response line, with the id of its message when the
\* message has one
AnsweredOnce(k) ==
    /\ Len(ResponsesTo(k)) = 1
    /\ HasIdAndMethod(input[k]) => ResponsesTo(k)[1].id = input[k].value.id

\* C29: every message received on stdin eventually yields exactly one
\* response line on stdout, which carries the id of the message when the
\* message is valid JSON with jsonrpc "2.0", an id and a method, however the
\* tool calls that await their HTTP result interleave
C29_AnsweredOnceWithItsId ==
    \A k \in Slots :
        /\ [](Len(ResponsesTo(k)) <= 1)
        /\ <>[]AnsweredOnce(k)

\* The response of an answered data event
ResponseTo(k) == ResponsesTo(k)[1]

ErrorCode(r) == IF Has(r, "error") THEN r.error ELSE 0

\* C30: the loop classifies errors by cause: -32700 with id null only for
\* input that is not valid JSON, -32600 only for valid JSON lacking jsonrpc
\* "2.0", id or method, -32601 only for an unknown method or an unknown tool
\* name, and a well-formed tools/call request, also one without params or
\* with id 0, gets a response carrying its own id
C30_ErrorsByCause ==
    \A k \in Slots :
        pc[k] = "answered" =>
            LET msg == input[k]
                r == ResponseTo(k)
            IN  /\ ErrorCode(r) = -32700 => (~msg.json /\ r.id = NullId)
                /\ ErrorCode(r) = -32600 => (msg.json /\ ~HasIdAndMethod(msg))
                /\ ErrorCode(r) = -32601 =>
                      /\ HasIdAndMethod(msg)
                      /\ \/ msg.value.method # "tools/call"
                         \/ (Has(msg.value, "params")
                               /\ msg.value.params.name \notin ToolNames)
                /\ (HasIdAndMethod(msg) /\ msg.value.method = "tools/call")
                      => r.id = msg.value.id

(***************************************************************************)
(* Further properties of the TypeScript Emitter (SpecTs).                  *)
(***************************************************************************)
\* The property lines among the lines of one rendering pass
PropertyLines(lines) == SelectSeq(lines, LAMBDA l : l.k = "prop")

\* The document whose one method is the procedure of the document
AsMethodDocument(jsonData) ==
    [data |-> [Path |-> jsonData.data.Path, func |-> <<jsonData.data.procedure>>]]

\* The document describes a procedure and nothing else
ProcedureOnly(jsonData) ==
    /\ Has(jsonData, "data")
    /\ Has(jsonData.data, "procedure")
    /\ ~Has(jsonData.data, "table") /\ ~Has(jsonData.data, "func")

\* C23: a procedure and a method of the same name and the same argument list
\* produce request-parameter interfaces with identical property lines
C23_SameParameterLines ==
    (pc = "generated" /\ ProcedureOnly(input)) =>
        LET r == GenerateTypeScriptDefinitions(impl, AsMethodDocument(input), opts)
        IN  PropertyLines(console \o sink) = PropertyLines(r.con \o r.out)

\* A property line typed KlbDateTime, nullable or not
TypedKlbDateTime(line) ==
    line.k = "prop" /\ line.type \in {"KlbDateTime", "KlbDateTime | null"}

\* C26: in one rendering pass the KlbDateTime declaration is emitted if and
\* only if at least one emitted property is typed KlbDateTime
C26_DeclaredIffUsed ==
    (pc = "generated" /\ Has(input, "data")) =>
        ((\E i \in DOMAIN Emitted : Emitted[i] = KlbDateTimeLine)
            <=> (\E i \in DOMAIN Emitted : TypedKlbDateTime(Emitted[i])))

\* The property lines of the resource interface of the document
ResourceProperties ==
    LET iface == IF impl = "index" THEN IndexPathName(input.data)
                 ELSE GetTypeName(PathParts(input.data))
    IN  SelectSeq(Emitted, LAMBDA l : l.k = "prop" /\ l.of = iface)

\* C27: no property name is declared twice within one emitted resource
\* interface, also when Struct holds a translatable ID field Foo_Text__ and
\* its companion field Foo
C27_NoPropertyTwice ==
    (pc = "generated" /\ Has(input, "data")) =>
        \A i, j \in DOMAIN ResourceProperties :
            i # j => ResourceProperties[i].name # ResourceProperties[j].name

(***************************************************************************)
(* Properties of the derived type name (SpecName).                         *)
(***************************************************************************)
\* The last segment contains the method-call delimiter
HasColon(segment) == \E i \in DOMAIN segment : segment[i] = ":"

PurelyAlphabetic(segment) == \A i \in DOMAIN segment : IsLetter(segment[i])

\* PascalCase: split on runs of non-alphanumeric characters, capitalize the
\* first letter of every piece
PascalCase(str) == Concat(CapitalizeAll(SplitNonAlnum(str, <<>>)))

\* The name the rule gives
RuleTypeName(parts) ==
    LET last == parts[Len(parts)]
    IN  IF HasColon(last) THEN PascalCase(BeforeColon(last))
        ELSE IF ~PurelyAlphabetic(last)
        THEN (IF Len(parts) = 1 THEN ApiObject ELSE PascalCase(parts[Len(parts) - 1]))
        ELSE IF Len(parts) > 1 THEN PascalCase(parts[Len(parts) - 1] \o last)
        ELSE PascalCase(last)

\* A name that can stand as an identifier: letters, digits and underscores,
\* no digit first
IdentifierSafe(name) ==
    /\ Len(name) > 0
    /\ name[1] \notin Digits
    /\ \A i \in DOMAIN name : IsWord(name[i])

\* C24: the derived type name of a path is the PascalCase form of the part of
\* the last segment before `:`, else of the second-to-last segment when the
\* last one is not purely alphabetic (a placeholder when the path has one
\* segment), else of the last two segments combined, else of the last
\* segment; the result is always an identifier-safe name
C24_DerivedTypeName ==
    pc = "named" => (result = RuleTypeName(input) /\ IdentifierSafe(result))

(***************************************************************************)
(* Further properties of the pretty-printer (SpecFmt).                     *)
(***************************************************************************)
\* The array given to formatObject is expanded: rendered between `[` and `]`
ExpandedArray ==
    /\ pc = "formatted" /\ input.obj.t = "array"
    /\ sink[1] = Punct(input.depth, "[")

\* The element renderings of the expanded array: a `,` at the indentation
\* of the elements stands between two of them
ElementRenderings ==
    1 + Cardinality({i \in DOMAIN sink : sink[i] = Punct(input.depth + 1, ",")})

\* The spaces a line begins with
Spaces(line) == 2 * line.indent

\* C25: formatObject terminates on every value, its lines printed; started
\* at depth 0 it calls itself with depth + 1 only while depth < maxDepth, so
\* that no line is indented by more than 2 * maxDepth spaces (every call
\* prints a line at the indentation of its depth), and an expanded array
\* contributes at most 5 element renderings
C25_TerminatesWithinDepthAndWidth ==
    (pc = "formatted" /\ input.depth = 0) =>
        /\ Len(sink) >= 1
        /\ \A i \in DOMAIN sink : Spaces(sink[i]) <= 2 * GetMaxDepth
        /\ ExpandedArray =>
              /\ ElementRenderings <= 5
              /\ ElementRenderings = Min(Len(input.obj.items), MaxDisplayItems)

C25_Witness ==
    /\ ExpandedArray /\ input.depth = 0
    /\ Len(input.obj.items) > MaxDisplayItems
    /\ \E i \in 1..MaxDisplayItems : IsNonEmptyContainer(input.obj.items[i])
    /\ ElementRenderings = 5

====
